---- MODULE Spec2Model ----
(***************************************************************************)
(* Model of the BTC 15-minute prediction bot (node_bot): the scheduler     *)
(* loop and decision cycle of index.ts, the price feed of priceFeed.ts,    *)
(* the broker client of polymarket.ts and the window/Kelly helpers of      *)
(* utils.ts.                                                               *)
(*                                                                         *)
(* Time is wall-clock milliseconds counted from a UTC midnight; every      *)
(* instant the model visits is a multiple of 5 s, the common divisor of    *)
(* the program's timing constants.  Probabilities and prices are in        *)
(* thousandths (600 is 0.60); money is in cents.                           *)
(*                                                                         *)
(* index.ts uses formatETTime and get15MinWindowStart only to build log    *)
(* lines (index.ts:125-132, 321-327).  utils.ts as given exports no        *)
(* formatETTime and index.ts does not import get15MinWindowStart; the      *)
(* model takes both names as resolved, so these lines only log and have    *)
(* no effect on the state.                                                 *)
(***************************************************************************)
EXTENDS Integers, Sequences, FiniteSets, TLC

\* ------------------------------------------------------------------ bounds
\* Number of 15-minute windows explored in a plain environment, where every
\* cycle reaches the order and only the order's outcome varies.
MaxWindows == 4
\* Number of 15-minute windows explored in a rich environment, where every
\* input of a cycle varies.
RichWindows == 2
\* Number of times the stream socket may drop.
MaxDrops == 1
\* Number of ticks given to aggregateTo15Min when it is applied on its own.
MaxTicks == 3
\* Number of firings of the reference poll timer explored with fetchChainlinkPrice
\* on its own.
MaxPolls == 5
\* Number of sockets connectBinanceWS may create, and number of 5 s steps of
\* the clock, explored with the stream connection on its own.
MaxSockets == 3
MaxClock == 6

\* ------------------------------------------------------- program constants
MAX_API_ERRORS == 3
WINDOW_MS == 15 * 60 * 1000
BAND_MIN_MS == 10000
BAND_MAX_MS == 60000
POLL_MS == 10000
POST_WINDOW_MS == 5000
STALE_MS == 60000
RECONNECT_MS == 5000
MIN_CANDLES == 20
HIST_LIMIT == 50
HIST_CAP == 100
MIN_CONFIDENCE_UP == 550
MIN_CONFIDENCE_DOWN == 450
MIN_EDGE == 20
\* runModel's fallback probabilities (model.ts, lines 268 and 272).
PROB_LABEL_UP == 550
PROB_LABEL_DOWN == 450
PROB_NEUTRAL == 500
BANKROLL == 1000
KELLY_FRACTION_PCT == 25
MAX_FRACTION_PPM == 100000
DEFAULT_PRICE == 500
MIN_RANGE_DIV == 1000
FEATURE_MIN_CANDLES == 20
PRICE_POLL_INTERVAL_MS == 5000
MAX_CHAINLINK_FAILURES == 3
GENERATED_FEATURES == 32

\* ------------------------------------------------------------ input sets
\* The first window boundary after the process starts.
Origin == HIST_CAP * WINDOW_MS
FirstBoundary == Origin + WINDOW_MS
\* Instants at which the process may be started: before the firing band of
\* the first boundary, or inside the last 10 s before it.
EarlyStart == FirstBoundary - BAND_MAX_MS - POLL_MS
LateStart == FirstBoundary - POST_WINDOW_MS
\* Duration of one awaited network call: fast, or slower than the firing band.
CallDurations == {0, BAND_MAX_MS}
\* Probabilities the scorer may return (thousandths).
ProbValues == {400, 520, 600}
\* Implied prices the broker may quote (thousandths).
PlainQuote == [up |-> 500, down |-> 500]
MarketQuotes == {PlainQuote, [up |-> 590, down |-> 590]}
\* A bankroll (BANKROLL of the environment, dollars) small enough for a Kelly
\* stake to fall below 1 USD, and the quotes it is run with: an edge just
\* above the minimum, the plain quote, and a price far below the probability.
SmallBankroll == 30
SmallBankrollQuotes == {[up |-> 575, down |-> 575], PlainQuote,
                        [up |-> 300, down |-> 300]}
\* Quotes a scorer without probabilities is run with: from the lowest price
\* to the highest, on either side.
LabelQuotes == {[up |-> u, down |-> d] : u \in {1, 300, 500, 530, 999},
                                        d \in {1, 300, 500, 530, 999}}
\* Arguments the sizing functions are applied to: probabilities and prices
\* (thousandths) on a grid over [0, 1] and one value on either side of it,
\* bankrolls in dollars, Kelly coefficients in percent.
GridStep == 50
SizingValues == {i * GridStep : i \in 0..(1000 \div GridStep)} \cup {-100, 1100}
Bankrolls == {BANKROLL, 250}
KellyFractions == {KELLY_FRACTION_PCT, 100}

\* Order books getOrderBook may return: prices in thousandths, sizes in
\* shares.  NoBook is the null of a failed request.
NoBook == [ok |-> FALSE, asks |-> <<>>]
Book(asks) == [ok |-> TRUE, asks |-> asks]
Ask(price, size) == [price |-> price, size |-> size]
DeepBook == Book(<<Ask(500, 1000)>>)
OrderBooks ==
    {NoBook,
     Book(<<>>),
     DeepBook,
     Book(<<Ask(500, 20), Ask(600, 1000)>>),
     Book(<<Ask(500, 10), Ask(505, 1000)>>)}
\* Shapes of a kline: flat (range 0) or wide (range 0.4 %).
BasePrice == 50000
FlatTick == [open |-> BasePrice, high |-> BasePrice, low |-> BasePrice,
             close |-> BasePrice, volume |-> 1]
WideTick == [open |-> BasePrice, high |-> BasePrice + 100, low |-> BasePrice - 100,
             close |-> BasePrice, volume |-> 1]
\* A kline that rises: open, high, low and close all differ.
RisingTick == [open |-> BasePrice - 50, high |-> BasePrice + 30,
               low |-> BasePrice - 60, close |-> BasePrice + 20, volume |-> 2]
\* Ticks given to aggregateTo15Min on its own: timestamps on, inside, at the
\* end of and after a window, in an earlier window and off the minute grid
\* (kline open times of the stream are instants of the present, none lies in
\* the window that starts at timestamp 0); flat, wide and rising shapes.
TickTimes == {Origin, Origin + 60000, Origin + WINDOW_MS - 1, Origin + WINDOW_MS,
              Origin + WINDOW_MS + 7000, Origin - 60000,
              Origin + 2 * WINDOW_MS + 1, Origin + 3 * WINDOW_MS + 30000}
TickShapes == {FlatTick, WideTick, RisingTick}
\* Arguments prepareFeatures is applied to: the number of candles it is given
\* and the n_features of the manifest, NoManifest when no manifest file was
\* loaded.
NoManifest == -1
CandleCounts == {0, FEATURE_MIN_CANDLES - 1, FEATURE_MIN_CANDLES,
                 FEATURE_MIN_CANDLES + 1}
ManifestSizes == {NoManifest, 0, GENERATED_FEATURES - 12, GENERATED_FEATURES,
                  GENERATED_FEATURES + 8}
\* Ticks given to aggregateTo15Min while a snapshot of the history is held,
\* and the changes the holder may make to the list it was given.
SnapTickTimes == {Origin, Origin + 60000, Origin + WINDOW_MS,
                  Origin + 2 * WINDOW_MS + 1}
SnapTickShapes == {FlatTick, RisingTick}
ConsumerEdits == {"pop", "shift", "reverse"}
\* Limits fetchHistorical15mCandles is called with on its own: the one
\* initialize passes, and the capacity of the history.
SeedLimits == {HIST_LIMIT, HIST_CAP}
\* What session.run may hand back to runModel.  output_probability: absent,
\* a tensor whose data is a Float32Array (of two elements for the two classes,
\* of fewer for a degenerate scorer), or a tensor of another element type;
\* output_label: absent (NoLabel) or an int64 class label.
NoLabel == -1
ProbabilityOutputs ==
    {[kind |-> "none", data |-> <<>>], [kind |-> "other", data |-> <<300, 700>>]}
    \cup {[kind |-> "float32", data |-> d] :
              d \in {<<>>, <<500>>, <<300, 700>>, <<800, 200>>, <<450, 550>>}}
LabelOutputs == {NoLabel, 0, 1, 2}
\* The inference session: never loaded, loaded with a run that rejects, loaded.
Sessions == {"none", "fails", "ok"}
\* Klines the stream may deliver.
StreamTicks == {[WideTick EXCEPT !.volume = 0]}
\* The stream may drop at an instant this long before a window boundary: one
\* staleness limit before the first poll inside the firing band.
DropLeads == {STALE_MS + BAND_MAX_MS - POST_WINDOW_MS}

\* The environment of one run: NODE_ENV, whether the model loads, whether the
\* seed request succeeds and the shape of its klines, whether the first stream
\* connection opens, whether the token ids get set, the start instant, and
\* whether the inputs of every cycle vary (rich) or only the order's outcome.
\* rpcOk: RPC_URL is valid, so that initChainlink creates the reference feed.
\* refOk: the reference feed answers the polls of the run.
\* bankroll: BANKROLL of the environment (config, line 464), 1000 by default.
\* scorer: what the ONNX session answers with: the probability pair, or
\* nothing runModel reads as one (a hard label, or no output it knows).
Env(prod, modelOk, seedOk, k, wsOk, found, start, rich, rpcOk, refOk) ==
    [prod |-> prod, modelOk |-> modelOk, seedOk |-> seedOk, k |-> k,
     wsOk |-> wsOk, found |-> found, start |-> start, rich |-> rich,
     rpcOk |-> rpcOk, refOk |-> refOk, bankroll |-> BANKROLL,
     scorer |-> "pair"]
Environments ==
    {Env(TRUE, TRUE, TRUE, WideTick, TRUE, TRUE, EarlyStart, TRUE, TRUE, TRUE),
     Env(TRUE, TRUE, TRUE, WideTick, TRUE, TRUE, LateStart, TRUE, FALSE, TRUE),
     Env(FALSE, TRUE, TRUE, WideTick, TRUE, TRUE, EarlyStart, TRUE, TRUE, TRUE),
     Env(TRUE, TRUE, TRUE, FlatTick, TRUE, TRUE, EarlyStart, TRUE, TRUE, TRUE),
     Env(TRUE, TRUE, TRUE, WideTick, TRUE, FALSE, EarlyStart, TRUE, TRUE, TRUE),
     Env(TRUE, TRUE, TRUE, WideTick, FALSE, TRUE, EarlyStart, TRUE, TRUE, TRUE),
     Env(TRUE, TRUE, FALSE, WideTick, TRUE, TRUE, EarlyStart, TRUE, TRUE, TRUE),
     Env(TRUE, FALSE, FALSE, WideTick, FALSE, FALSE, EarlyStart, TRUE, TRUE, TRUE),
     Env(TRUE, TRUE, TRUE, WideTick, TRUE, TRUE, EarlyStart, FALSE, TRUE, TRUE),
     Env(FALSE, TRUE, TRUE, WideTick, TRUE, TRUE, EarlyStart, FALSE, FALSE, TRUE),
     Env(TRUE, TRUE, TRUE, WideTick, TRUE, TRUE, EarlyStart, FALSE, TRUE, FALSE),
     [Env(TRUE, TRUE, TRUE, WideTick, TRUE, TRUE, EarlyStart, TRUE, FALSE, TRUE)
          EXCEPT !.bankroll = SmallBankroll],
     [Env(TRUE, TRUE, TRUE, WideTick, TRUE, TRUE, EarlyStart, TRUE, FALSE, TRUE)
          EXCEPT !.scorer = "label"]}

VARIABLES
    now,                \* wall clock (Date.now())
    exited,             \* process.exit has run
    pc,                 \* position of main()/mainLoop()/executeTrade()
    isRunning, lastTradedWindowId, apiErrorCount,
    totalPredictions, upBets, downBets, skippedBets,
    latestPrice, lastUpdateTime, candles15m, currentCandle,
    ws,                 \* stream socket: "none", "open", "silent", "down"
    reconnectAt,        \* instant the reconnect timer fires, -1 when not armed
    drops,              \* socket drops so far
    pollInterval,       \* the reference poll timer is set
    chainlinkFailureCount,
    lastPollAt,         \* instant of the latest firing of the poll timer
    lastReferenceOk,    \* history: instant of the latest successful poll, -1 if none
    env,                \* the environment of the run, fixed at start
    calc,               \* arguments and results of a helper applied on its own
    tokensSet,          \* polymarket.ts BTC_UP_TOKEN_ID/BTC_DOWN_TOKEN_ID are non-empty
    totalOrders, successfulOrders, failedOrders, totalVolume,
    cyc,                \* locals of the running executeTrade
    callWindow,         \* history: WindowId current at the latest placeBet call
    callsInWindow,      \* history: placeBet calls made while callWindow was current
    consecFails,        \* history: recorded API errors since the last recorded trade
    orderPosts,         \* history: POSTs sent to the order endpoint
    firedBoundary,      \* history: window boundary the latest cycle was started for
    skipReason          \* history: why the cycle that has just returned skipped

vars == <<now, exited, pc, isRunning, lastTradedWindowId, apiErrorCount,
          totalPredictions, upBets, downBets, skippedBets,
          latestPrice, lastUpdateTime, candles15m, currentCandle,
          ws, reconnectAt, drops, pollInterval, chainlinkFailureCount,
          lastPollAt, lastReferenceOk, env, calc, tokensSet,
          totalOrders, successfulOrders, failedOrders, totalVolume,
          cyc, callWindow, callsInWindow, consecFails,
          orderPosts, firedBoundary, skipReason>>

indexVars == <<isRunning, lastTradedWindowId, apiErrorCount,
               totalPredictions, upBets, downBets, skippedBets>>
counterVars == <<totalPredictions, upBets, downBets, skippedBets>>
feedVars == <<latestPrice, lastUpdateTime, candles15m, currentCandle,
              ws, reconnectAt, drops, pollInterval>>
configVars == <<env, calc, tokensSet>>
refVars == <<chainlinkFailureCount, lastPollAt, lastReferenceOk>>
polyVars == <<totalOrders, successfulOrders, failedOrders, totalVolume>>
callVars == <<callWindow, callsInWindow, consecFails>>
historyVars == <<callWindow, callsInWindow, consecFails,
                 orderPosts, firedBoundary, skipReason>>

\* The last instant of the run, and the inputs a cycle may meet in it.
Horizon == FirstBoundary + BAND_MAX_MS
           + (IF env.rich THEN RichWindows - 1 ELSE MaxWindows - 1) * WINDOW_MS
Durations == IF env.rich THEN CallDurations ELSE {0}
Probs == IF env.scorer = "label"
         THEN {PROB_LABEL_UP, PROB_LABEL_DOWN, PROB_NEUTRAL}
         ELSE IF env.rich THEN ProbValues ELSE {600}
Quotes == IF env.scorer = "label" THEN LabelQuotes
          ELSE IF env.bankroll = SmallBankroll THEN SmallBankrollQuotes
          ELSE IF env.rich THEN MarketQuotes ELSE {PlainQuote}
Flags == IF env.rich THEN BOOLEAN ELSE {TRUE}
Books == IF env.rich THEN OrderBooks ELSE {DeepBook}

\* config.ts
IS_PRODUCTION == env.prod

\* ------------------------------------------------------------ utils.ts
Min(a, b) == IF a <= b THEN a ELSE b
Max(a, b) == IF a >= b THEN a ELSE b

\* A window start floored to the minute only.
get15MinWindowStart_Minute(t) == t - (t % 60000)

\* get15MinWindowStart: floor the UTC minutes to a multiple of 15, zero the
\* seconds and milliseconds.
get15MinWindowStart(t) ==
    LET hourStart == t - (t % 3600000)
        minutes == (t % 3600000) \div 60000
        windowStartMinute == (minutes \div 15) * 15
    IN  hourStart + windowStartMinute * 60000

getNext15MinWindowStart(t) == get15MinWindowStart(t) + WINDOW_MS

\* get15MinWindowId: the string YYYYMMDD_HHMM of the window start, encoded as
\* day * 10000 + HH * 100 + MM (the day index stands for YYYYMMDD).
get15MinWindowId(t) ==
    LET w == get15MinWindowStart(t)
        day == w \div 86400000
        hour == (w % 86400000) \div 3600000
        minute == (w % 3600000) \div 60000
    IN  day * 10000 + hour * 100 + minute

\* The initial lastTradedWindowId, the empty string.
EmptyWindowId == -1

msUntilNextWindow(t) == getNext15MinWindowStart(t) - t

isOptimalBettingTime(t) ==
    LET msUntil == msUntilNextWindow(t)
    IN  msUntil > BAND_MIN_MS /\ msUntil < BAND_MAX_MS

\* kellyBetSize with the default kellyFraction 0.25 and maxFraction 0.10, in
\* parts per million of the bankroll.  With b = (1 - price)/price the full
\* Kelly fraction (b*p - q)/b equals (p - price)/(1 - price).
\* A kellyBetSize without the test for a positive full Kelly fraction.
kellyBetSizeWith_NoSign(probWin, marketPrice, kellyFractionPct, maxFractionPpm) ==
    IF probWin <= 0 \/ probWin >= 1000 THEN 0
    ELSE IF marketPrice <= 0 \/ marketPrice >= 1000 THEN 0
    ELSE Min((kellyFractionPct * 10000 * (probWin - marketPrice))
                 \div (1000 - marketPrice),
             maxFractionPpm)

\* A kellyBetSize whose ceiling grows with the Kelly coefficient.
kellyBetSizeWith_ScaledCap(probWin, marketPrice, kellyFractionPct, maxFractionPpm) ==
    IF probWin <= 0 \/ probWin >= 1000 THEN 0
    ELSE IF marketPrice <= 0 \/ marketPrice >= 1000 THEN 0
    ELSE IF probWin - marketPrice <= 0 THEN 0
    ELSE Min((kellyFractionPct * 10000 * (probWin - marketPrice))
                 \div (1000 - marketPrice),
             (maxFractionPpm * kellyFractionPct) \div KELLY_FRACTION_PCT)

\* A kellyBetSize that returns nothing instead of the ceiling.
kellyBetSizeWith_DropAtCap(probWin, marketPrice, kellyFractionPct, maxFractionPpm) ==
    IF probWin <= 0 \/ probWin >= 1000 THEN 0
    ELSE IF marketPrice <= 0 \/ marketPrice >= 1000 THEN 0
    ELSE IF probWin - marketPrice <= 0 THEN 0
    ELSE IF (kellyFractionPct * 10000 * (probWin - marketPrice))
                \div (1000 - marketPrice) > maxFractionPpm THEN 0
    ELSE (kellyFractionPct * 10000 * (probWin - marketPrice))
             \div (1000 - marketPrice)

kellyBetSizeWith(probWin, marketPrice, kellyFractionPct, maxFractionPpm) ==
    IF probWin <= 0 \/ probWin >= 1000 THEN 0
    ELSE IF marketPrice <= 0 \/ marketPrice >= 1000 THEN 0
    ELSE IF probWin - marketPrice <= 0 THEN 0
    ELSE Min((kellyFractionPct * 10000 * (probWin - marketPrice))
                 \div (1000 - marketPrice),
             maxFractionPpm)

\* kellyBetSize called with two arguments, as calculateBetSize calls it.
kellyBetSize(probWin, marketPrice) ==
    kellyBetSizeWith(probWin, marketPrice, KELLY_FRACTION_PCT, MAX_FRACTION_PPM)

\* A calculateBetSize that passes its arguments to kellyBetSize in the wrong
\* order.
calculateBetSize_Swapped(bankroll, probWin, marketPrice) ==
    (bankroll * kellyBetSize(marketPrice, probWin)) \div 10000

\* calculateBetSize, in cents.
calculateBetSize(bankroll, probWin, marketPrice) ==
    (bankroll * kellyBetSize(probWin, marketPrice)) \div 10000

\* ------------------------------------------------------------- model.ts
\* prepareFeatures has not been called.
NoFeatures == [ok |-> FALSE, features |-> <<>>, warned |-> FALSE, called |-> FALSE]

\* A prepareFeatures that returns what it generated, whatever the manifest.
prepareFeatures_AsGenerated(candles, nFeatures) ==
    IF Len(candles) < FEATURE_MIN_CANDLES
    THEN [ok |-> FALSE, features |-> <<>>, warned |-> FALSE, called |-> TRUE]
    ELSE [ok |-> TRUE, features |-> [i \in 1..GENERATED_FEATURES |-> i],
          warned |-> nFeatures # NoManifest /\ nFeatures # GENERATED_FEATURES,
          called |-> TRUE]

\* prepareFeatures: throws below 20 candles; otherwise pushes its 32 features
\* (the i-th is written i here, a padding zero 0), warns when the manifest
\* asks for another number, pads with zeros up to that number and returns the
\* first that many.
prepareFeatures(candles, nFeatures) ==
    IF Len(candles) < FEATURE_MIN_CANDLES
    THEN [ok |-> FALSE, features |-> <<>>, warned |-> FALSE, called |-> TRUE]
    ELSE LET generated == [i \in 1..GENERATED_FEATURES |-> i]
             expectedFeatures == IF nFeatures = NoManifest THEN Len(generated)
                                 ELSE nFeatures
             padded == generated
                       \o [i \in 1..Max(expectedFeatures - Len(generated), 0) |-> 0]
         IN  [ok |-> TRUE,
              features |-> SubSeq(padded, 1, Min(expectedFeatures, Len(padded))),
              warned |-> Len(generated) # expectedFeatures,
              called |-> TRUE]

\* runModel has not been called.
NoScore == [called |-> FALSE, threw |-> FALSE, probUp |-> -1]

\* A runModel that reads the first element of the pair, the probability of
\* Down.
runModel_FirstElement(session, probabilities, label) ==
    IF session # "ok"
    THEN [called |-> TRUE, threw |-> TRUE, probUp |-> -1]
    ELSE [called |-> TRUE, threw |-> FALSE,
          probUp |->
              IF probabilities.kind = "float32"
              THEN IF Len(probabilities.data) >= 1
                   THEN probabilities.data[1] ELSE PROB_NEUTRAL
              ELSE IF label # NoLabel
              THEN IF label = 1 THEN PROB_LABEL_UP ELSE PROB_LABEL_DOWN
              ELSE PROB_NEUTRAL]

\* runModel (lines 241-273): throws without a session or when session.run
\* rejects; with an output_probability whose data is a Float32Array (or an
\* array) returns data[1] ?? 0.5; else with an output_label returns 0.55 for
\* the label 1n and 0.45 for another; else 0.5.
runModel(session, probabilities, label) ==
    IF session # "ok"
    THEN [called |-> TRUE, threw |-> TRUE, probUp |-> -1]
    ELSE [called |-> TRUE, threw |-> FALSE,
          probUp |->
              IF probabilities.kind = "float32"
              THEN IF Len(probabilities.data) >= 2
                   THEN probabilities.data[2] ELSE PROB_NEUTRAL
              ELSE IF label # NoLabel
              THEN IF label = 1 THEN PROB_LABEL_UP ELSE PROB_LABEL_DOWN
              ELSE PROB_NEUTRAL]

\* ---------------------------------------------------------- priceFeed.ts
\* currentCandle = null.
NoCandle == [timestamp |-> -1, open |-> 0, high |-> 0, low |-> 0, close |-> 0,
             volume |-> 0]

Candle(ts, k) == [timestamp |-> ts, open |-> k.open, high |-> k.high,
                  low |-> k.low, close |-> k.close, volume |-> k.volume]

\* A history that gives up the candle just pushed when it is full.
aggregateHistory_DropNewest(hist, cur, timestamp) ==
    LET windowTs == get15MinWindowStart(timestamp)
    IN  IF cur = NoCandle \/ cur.timestamp # windowTs
        THEN IF cur # NoCandle /\ cur.timestamp # 0
             THEN LET pushed == Append(hist, cur)
                  IN  IF Len(pushed) > HIST_CAP
                      THEN SubSeq(pushed, 1, HIST_CAP)
                      ELSE pushed
             ELSE hist
        ELSE hist

\* aggregateTo15Min, the history after the tick: a tick of another window
\* appends the open candle and drops the oldest above 100.
aggregateHistory(hist, cur, timestamp) ==
    LET windowTs == get15MinWindowStart(timestamp)
    IN  IF cur = NoCandle \/ cur.timestamp # windowTs
        THEN IF cur # NoCandle /\ cur.timestamp # 0
             THEN LET pushed == Append(hist, cur)
                  IN  IF Len(pushed) > HIST_CAP THEN Tail(pushed) ELSE pushed
             ELSE hist
        ELSE hist

\* A new candle that opens where the one before it closed.
aggregateCurrent_CarryOpen(cur, timestamp, k) ==
    LET windowTs == get15MinWindowStart(timestamp)
    IN  IF cur = NoCandle \/ cur.timestamp # windowTs
        THEN [Candle(windowTs, k) EXCEPT
                 !.open = IF cur = NoCandle THEN k.open ELSE cur.close]
        ELSE [cur EXCEPT !.high = Max(cur.high, k.high),
                         !.low = Min(cur.low, k.low),
                         !.close = k.close,
                         !.volume = cur.volume + k.volume]

\* An update of the open candle that takes the tick's high and low as they
\* come.
aggregateCurrent_Overwrite(cur, timestamp, k) ==
    LET windowTs == get15MinWindowStart(timestamp)
    IN  IF cur = NoCandle \/ cur.timestamp # windowTs
        THEN Candle(windowTs, k)
        ELSE [cur EXCEPT !.high = k.high,
                         !.low = k.low,
                         !.close = k.close,
                         !.volume = cur.volume + k.volume]

\* aggregateTo15Min, the open candle after the tick.
aggregateCurrent(cur, timestamp, k) ==
    LET windowTs == get15MinWindowStart(timestamp)
    IN  IF cur = NoCandle \/ cur.timestamp # windowTs
        THEN Candle(windowTs, k)
        ELSE [cur EXCEPT !.high = Max(cur.high, k.high),
                         !.low = Min(cur.low, k.low),
                         !.close = k.close,
                         !.volume = cur.volume + k.volume]

\* A health check that looks at the price only.
isPriceFeedHealthy_PriceOnly(t) == latestPrice > 0

isPriceFeedHealthy(t) == t - lastUpdateTime < STALE_MS /\ latestPrice > 0

get15MinCandles == candles15m

\* Objects and arrays by reference.  heap[r] is the candle object of
\* reference r, arrays[a] the list of references array a holds; array 1 is
\* the one the module variable candles15m is bound to.
Deref(refs, heap) == [i \in 1..Len(refs) |-> heap[refs[i]]]

\* A get15MinCandles that hands out the module's own array.
get15MinCandlesArray_Same(arrays) == Min(1, Len(arrays))

\* get15MinCandles returns [...candles15m]: the reference of a new array,
\* which holds the references array 1 holds.
get15MinCandlesArray(arrays) == Len(arrays) + 1

\* The klines the REST endpoint returns for a limit: the latest windows, the
\* last being the window in progress.
SeedHistoryOf(limit, t, k) ==
    [i \in 1..limit |->
        Candle(get15MinWindowStart(t) - (limit - i) * WINDOW_MS, k)]

\* fetchHistorical15mCandles(50), as initialize calls it.
SeedHistory(t, k) == SeedHistoryOf(HIST_LIMIT, t, k)

\* A fetchHistorical15mCandles whose failure empties the history and the
\* price and stamps the update time.
fetchHistorical15mCandles_Clears(ok, limit, t, k, state) ==
    IF ok
    THEN [returned |-> SeedHistoryOf(limit, t, k),
          candles15m |-> SeedHistoryOf(limit, t, k),
          latestPrice |-> k.close, lastUpdateTime |-> t]
    ELSE [returned |-> <<>>, candles15m |-> <<>>,
          latestPrice |-> 0, lastUpdateTime |-> t]

\* fetchHistorical15mCandles (lines 425-477): the value it returns and the
\* module state it leaves.  ok: the request answered 2xx with klines within
\* 30 s; otherwise the inner catch rethrows (timeout, network error, non-2xx)
\* and the outer catch returns [] before any assignment has run.
fetchHistorical15mCandles(ok, limit, t, k, state) ==
    IF ok
    THEN [returned |-> SeedHistoryOf(limit, t, k),
          candles15m |-> SeedHistoryOf(limit, t, k),
          latestPrice |-> k.close, lastUpdateTime |-> t]
    ELSE [returned |-> <<>>, candles15m |-> state.candles15m,
          latestPrice |-> state.latestPrice,
          lastUpdateTime |-> state.lastUpdateTime]

\* The module state fetchHistorical15mCandles reads and writes.
SeedState ==
    [candles15m |-> candles15m, latestPrice |-> latestPrice,
     lastUpdateTime |-> lastUpdateTime]

\* The stream delivers a kline message at least once per 5 s while the socket
\* is open: time does not pass an instant before its message is handled.
\* The reconnect timer too is served before time passes it.
StreamSettled ==
    /\ ws = "open" => lastUpdateTime = now
    /\ ws = "down" => reconnectAt > now

\* The poll timer, which fires every 5 s, is served too before time passes.
FeedSettled ==
    /\ StreamSettled
    /\ pollInterval => lastPollAt = now

\* The poll timer fires (lines 367-370) and fetchChainlinkPrice runs: nothing
\* once the feed is disabled; an answer resets the failure count and its price
\* is dropped by the timer's callback; a failure is counted, the firings that
\* fell into a sleep of the loop included, and the third disables the feed.
\* The poll of an instant is served after the stream's message of that
\* instant; the two write different variables.
ReferencePoll ==
    /\ ~exited /\ pollInterval /\ lastPollAt # now /\ StreamSettled
    /\ lastPollAt' = now
    /\ IF chainlinkFailureCount >= MAX_CHAINLINK_FAILURES
       THEN UNCHANGED <<chainlinkFailureCount, lastReferenceOk>>
       ELSE IF env.refOk
       THEN chainlinkFailureCount' = 0 /\ lastReferenceOk' = now
       ELSE /\ chainlinkFailureCount' =
                  Min(MAX_CHAINLINK_FAILURES,
                      chainlinkFailureCount
                          + (now - lastPollAt) \div PRICE_POLL_INTERVAL_MS)
            /\ UNCHANGED lastReferenceOk
    /\ UNCHANGED <<now, exited, pc, indexVars, latestPrice, lastUpdateTime,
                   candles15m, currentCandle, ws, reconnectAt, drops,
                   pollInterval, configVars, polyVars, cyc, historyVars>>

\* ws.on("message"): a 1-minute kline whose open time is the current minute.
\* A socket that had gone silent delivers again from this message on.
WsMessage(k) ==
    /\ ~exited /\ ws \in {"open", "silent"} /\ lastUpdateTime # now
    /\ ws' = "open"
    /\ latestPrice' = k.close
    /\ lastUpdateTime' = now
    /\ candles15m' = aggregateHistory(candles15m, currentCandle, now - (now % 60000))
    /\ currentCandle' = aggregateCurrent(currentCandle, now - (now % 60000), k)
    /\ UNCHANGED <<refVars, now, exited, pc, indexVars, reconnectAt, drops,
                   pollInterval, configVars, polyVars, cyc, historyVars>>

\* The open socket stops delivering messages without a close or error event
\* (the peer is unreachable and no frame arrives): no handler of
\* connectBinanceWS runs, and the module sets no ping or idle timer on the
\* socket, so nothing of the program's state changes.
WsStall ==
    /\ ~exited /\ ws = "open" /\ drops < MaxDrops /\ env.rich
    /\ msUntilNextWindow(now) \in DropLeads
    /\ ws' = "silent"
    /\ drops' = drops + 1
    /\ UNCHANGED <<refVars, now, exited, pc, indexVars, latestPrice, lastUpdateTime,
                   candles15m, currentCandle, reconnectAt, pollInterval,
                   configVars, polyVars, cyc, historyVars>>

\* ws.on("close"): arm the 5 s reconnect timer.
WsClose ==
    /\ ~exited /\ ws = "open" /\ drops < MaxDrops /\ env.rich
    /\ msUntilNextWindow(now) \in DropLeads
    /\ ws' = "down"
    /\ reconnectAt' = now + RECONNECT_MS
    /\ drops' = drops + 1
    /\ UNCHANGED <<refVars, now, exited, pc, indexVars, latestPrice, lastUpdateTime,
                   candles15m, currentCandle, pollInterval, configVars, polyVars,
                   cyc, historyVars>>

\* The reconnect timer fires (line 334) and connectBinanceWS runs: the socket
\* opens, or the attempt fails (error event, line 340, or the 10 s timeout,
\* line 294) and rejects the promise connectBinanceWS returned.  The timer's
\* callback drops that promise and index.ts registers no unhandledRejection
\* or uncaughtException handler (only SIGINT and SIGTERM, lines 374-381), so
\* Node raises the rejection as an uncaught exception and the process
\* terminates with its socket and timers; shutdown() does not run.
WsReconnect(ok) ==
    /\ ~exited /\ ws = "down" /\ now >= reconnectAt
    /\ reconnectAt' = -1
    /\ IF ok THEN /\ ws' = "open"
                  /\ UNCHANGED <<exited, pc, pollInterval>>
             ELSE /\ ws' = "none" /\ pollInterval' = FALSE
                  /\ exited' = TRUE /\ pc' = "crash"
    /\ UNCHANGED <<refVars, now, indexVars, latestPrice, lastUpdateTime,
                   candles15m, currentCandle, drops, configVars,
                   polyVars, cyc, historyVars>>

\* ------------------------------------------------------------- index.ts
\* Locals of executeTrade when no cycle is running.
IdleCyc == [taken |-> FALSE, snap |-> <<>>, probUp |-> -1, upPrice |-> -1,
            downPrice |-> -1, priceFailed |-> FALSE, side |-> "none", betSize |-> 0,
            book |-> NoBook, bookToken |-> "none"]

CyclePcs == {"predict", "prices", "liquidity", "order_prices", "order_post"}

\* A pre-check that does not look at the feed.
canTrade_NoHealth(t) ==
    /\ ~(apiErrorCount >= MAX_API_ERRORS)
    /\ get15MinWindowId(t) # lastTradedWindowId

\* canTrade at instant t.
canTrade(t) ==
    /\ ~(apiErrorCount >= MAX_API_ERRORS)
    /\ get15MinWindowId(t) # lastTradedWindowId
    /\ isPriceFeedHealthy(t)

\* recordTrade at instant t: the new lastTradedWindowId.
recordTrade(t) == get15MinWindowId(t)

\* A recordTrade that restarts the error count.
apiErrorsAfterTrade_Reset == Min(apiErrorCount, 0)

\* recordTrade writes lastTradedWindowId only: apiErrorCount after it.
apiErrorsAfterTrade == apiErrorCount

\* A recordApiError that starts over when the limit is reached.
recordApiError_Wrap == (apiErrorCount + 1) % MAX_API_ERRORS

\* recordApiError: the new apiErrorCount.
recordApiError == apiErrorCount + 1

\* A sleep after the cycle that forgets the distance to the boundary.
postCycleWait_MarginOnly(t) == POST_WINDOW_MS

\* No sleep after the cycle at all.
postCycleWait_None(t) == 0

\* Line 331: the sleep after a cycle, computed when executeTrade has returned.
postCycleWait(t) == msUntilNextWindow(t) + POST_WINDOW_MS

\* A placeBet without the dry-run branch.
isDryRun_Never == FALSE

\* placeBetUp/placeBetDown, lines 829 and 889: the dry-run branch is taken.
isDryRun == ~IS_PRODUCTION

\* main() up to mainLoop(): initialize() loads the model, seeds the history,
\* starts the price feed and looks the market up; a model that does not load is
\* fatal (shutdown, exit 1).
Initialize ==
    /\ ~exited /\ pc = "init"
    /\ IF ~env.modelOk
       THEN /\ exited' = TRUE /\ pc' = "exit" /\ isRunning' = FALSE
            /\ UNCHANGED <<feedVars, refVars, tokensSet>>
       ELSE /\ exited' = FALSE /\ pc' = "poll" /\ isRunning' = TRUE
            /\ LET seed == fetchHistorical15mCandles(env.seedOk, HIST_LIMIT, now,
                                                     env.k, SeedState)
               IN  /\ candles15m' = seed.candles15m
                   /\ latestPrice' = seed.latestPrice
                   /\ lastUpdateTime' = seed.lastUpdateTime
            /\ IF env.wsOk
               THEN ws' = "open" /\ reconnectAt' = -1
               ELSE ws' = "down" /\ reconnectAt' = now + RECONNECT_MS
            /\ pollInterval' = env.rpcOk
            /\ lastPollAt' = now
            /\ UNCHANGED <<currentCandle, drops, chainlinkFailureCount,
                           lastReferenceOk>>
            /\ tokensSet' = env.found
    /\ UNCHANGED <<now, lastTradedWindowId, apiErrorCount, counterVars,
                   env, calc, polyVars, cyc, historyVars>>

\* mainLoop, line 320 false: outside the firing band, go to the 10 s sleep.
PollIdle ==
    /\ ~exited /\ pc = "poll" /\ isRunning
    /\ ~isOptimalBettingTime(now)
    /\ pc' = "sleep10"
    /\ UNCHANGED <<refVars, now, exited, indexVars, feedVars, configVars, polyVars, cyc,
                   historyVars>>

\* A scheduler that fires executeTrade from a timer, whether or not the
\* previous call has returned.
StartCycle_Reentrant ==
    /\ ~exited /\ pc \in {"poll"} \cup CyclePcs /\ isRunning
    /\ isOptimalBettingTime(now)
    /\ totalPredictions' = totalPredictions + 1
    /\ firedBoundary' = getNext15MinWindowStart(now)
    /\ IF ~canTrade(now)
       THEN /\ skippedBets' = skippedBets + 1
            /\ pc' = "postwait" /\ cyc' = IdleCyc
            /\ skipReason' = "precheck"
       ELSE IF Len(get15MinCandles) < MIN_CANDLES
       THEN /\ skippedBets' = skippedBets + 1
            /\ pc' = "postwait" /\ cyc' = IdleCyc
            /\ skipReason' = "history"
       ELSE /\ skippedBets' = skippedBets
            /\ pc' = "predict"
            /\ cyc' = [IdleCyc EXCEPT !.taken = TRUE, !.snap = get15MinCandles]
            /\ skipReason' = "none"
    /\ UNCHANGED <<refVars, now, exited, isRunning, lastTradedWindowId, apiErrorCount,
                   upBets, downBets, feedVars, configVars, polyVars,
                   callVars, orderPosts>>

\* mainLoop, line 320 true, and executeTrade up to its first await (lines
\* 105-137): count the prediction, pre-check, snapshot, history length.
StartCycle ==
    /\ ~exited /\ pc = "poll" /\ isRunning
    /\ isOptimalBettingTime(now)
    /\ totalPredictions' = totalPredictions + 1
    /\ firedBoundary' = getNext15MinWindowStart(now)
    /\ IF ~canTrade(now)
       THEN /\ skippedBets' = skippedBets + 1
            /\ pc' = "postwait" /\ cyc' = IdleCyc
            /\ skipReason' = "precheck"
       ELSE IF Len(get15MinCandles) < MIN_CANDLES
       THEN /\ skippedBets' = skippedBets + 1
            /\ pc' = "postwait" /\ cyc' = IdleCyc
            /\ skipReason' = "history"
       ELSE /\ skippedBets' = skippedBets
            /\ pc' = "predict"
            /\ cyc' = [IdleCyc EXCEPT !.taken = TRUE, !.snap = get15MinCandles]
            /\ skipReason' = "none"
    /\ UNCHANGED <<refVars, now, exited, isRunning, lastTradedWindowId, apiErrorCount,
                   upBets, downBets, feedVars, configVars, polyVars,
                   callVars, orderPosts>>

\* A catch of the prediction error that records it as an API error.
PredictReturn_CountsError(ok, p) ==
    /\ ~exited /\ pc = "predict"
    /\ IF ~ok
       THEN /\ skippedBets' = skippedBets + 1
            /\ apiErrorCount' = recordApiError
            /\ pc' = "postwait" /\ cyc' = IdleCyc
            /\ skipReason' = "predict"
       ELSE /\ skippedBets' = skippedBets
            /\ apiErrorCount' = apiErrorCount
            /\ pc' = "prices"
            /\ cyc' = [cyc EXCEPT !.probUp = p]
            /\ skipReason' = "none"
    /\ UNCHANGED <<refVars, now, exited, isRunning, lastTradedWindowId,
                   totalPredictions, upBets, downBets, feedVars, configVars,
                   polyVars, callVars, orderPosts, firedBoundary>>

\* await predict returns (lines 136-142), then getMarketPrices is called: it
\* sends a request only when both token ids are set (line 671).
PredictReturn(ok, p) ==
    /\ ~exited /\ pc = "predict"
    /\ IF ~ok
       THEN /\ skippedBets' = skippedBets + 1
            /\ pc' = "postwait" /\ cyc' = IdleCyc
            /\ skipReason' = "predict"
       ELSE /\ skippedBets' = skippedBets
            /\ pc' = "prices"
            /\ cyc' = [cyc EXCEPT !.probUp = p]
            /\ skipReason' = "none"
    /\ UNCHANGED <<refVars, now, exited, isRunning, lastTradedWindowId, apiErrorCount,
                   totalPredictions, upBets, downBets, feedVars, configVars,
                   polyVars, callVars, orderPosts, firedBoundary>>

\* A volatility filter that lets every candle pass.
lowVolatility_Never(snap) == FALSE

\* Line 172-173: the volatility filter on the last candle of the snapshot.
lowVolatility(snap) ==
    LET lastCandle == snap[Len(snap)]
    IN  (lastCandle.high - lastCandle.low) * MIN_RANGE_DIV < lastCandle.close

\* A decision on the confidence thresholds alone.
decision_NoEdge(probUp, upPrice, downPrice) ==
    IF probUp > MIN_CONFIDENCE_UP THEN "up"
    ELSE IF probUp < MIN_CONFIDENCE_DOWN THEN "down"
    ELSE "none"

\* A decision whose confidence thresholds are inclusive.
decision_Inclusive(probUp, upPrice, downPrice) ==
    IF probUp >= MIN_CONFIDENCE_UP /\ probUp - upPrice > MIN_EDGE THEN "up"
    ELSE IF probUp <= MIN_CONFIDENCE_DOWN /\ (1000 - probUp) - downPrice > MIN_EDGE
         THEN "down"
    ELSE "none"

\* Lines 182 and 218: the direction the thresholds select.
decision(probUp, upPrice, downPrice) ==
    IF probUp > MIN_CONFIDENCE_UP /\ probUp - upPrice > MIN_EDGE THEN "up"
    ELSE IF probUp < MIN_CONFIDENCE_DOWN /\ (1000 - probUp) - downPrice > MIN_EDGE
         THEN "down"
    ELSE "none"

\* An executeTrade without the minimum of 1 USD (lines 187-190, 223-226).
PricesReturn_NoMinimum(d, fetched, q) ==
    /\ ~exited /\ pc = "prices"
    /\ FeedSettled /\ now + d <= Horizon
    /\ fetched => tokensSet
    /\ ~tokensSet => d = 0
    /\ now' = now + d
    /\ LET upPrice == IF fetched THEN q.up ELSE DEFAULT_PRICE
           downPrice == IF fetched THEN q.down ELSE DEFAULT_PRICE
           side == decision(cyc.probUp, upPrice, downPrice)
           betSize == IF side = "up"
                      THEN calculateBetSize(env.bankroll, cyc.probUp, upPrice)
                      ELSE calculateBetSize(env.bankroll, 1000 - cyc.probUp,
                                            downPrice)
       IN  IF lowVolatility(cyc.snap)
           THEN /\ skippedBets' = skippedBets + 1
                /\ pc' = "postwait" /\ cyc' = IdleCyc
                /\ skipReason' = "volatility"
                /\ UNCHANGED <<upBets, downBets>>
           ELSE IF side = "none"
           THEN /\ skippedBets' = skippedBets + 1
                /\ pc' = "postwait" /\ cyc' = IdleCyc
                /\ skipReason' = "edge"
                /\ UNCHANGED <<upBets, downBets>>
           ELSE /\ upBets' = upBets + (IF side = "up" THEN 1 ELSE 0)
                /\ downBets' = downBets + (IF side = "down" THEN 1 ELSE 0)
                /\ skippedBets' = skippedBets
                /\ skipReason' = "none"
                /\ pc' = "liquidity"
                /\ cyc' = [cyc EXCEPT !.upPrice = upPrice,
                                      !.downPrice = downPrice,
                                      !.priceFailed = tokensSet /\ ~fetched,
                                      !.side = side,
                                      !.betSize = betSize]
    /\ UNCHANGED <<refVars, exited, isRunning, lastTradedWindowId, apiErrorCount,
                   totalPredictions, feedVars, configVars, polyVars,
                   callVars, orderPosts, firedBoundary>>

\* getMarketPrices returns after d ms (lines 669-688) and executeTrade runs to
\* its next await (lines 160-193 / 218-229).  q is the broker's quote; a
\* failed request, or a body without the token keys, gives 0.5 / 0.5.
PricesReturn(d, fetched, q) ==
    /\ ~exited /\ pc = "prices"
    /\ FeedSettled /\ now + d <= Horizon
    /\ fetched => tokensSet
    /\ ~tokensSet => d = 0
    /\ now' = now + d
    /\ LET upPrice == IF fetched THEN q.up ELSE DEFAULT_PRICE
           downPrice == IF fetched THEN q.down ELSE DEFAULT_PRICE
           side == decision(cyc.probUp, upPrice, downPrice)
           betSize == IF side = "up"
                      THEN calculateBetSize(env.bankroll, cyc.probUp, upPrice)
                      ELSE calculateBetSize(env.bankroll, 1000 - cyc.probUp,
                                            downPrice)
       IN  IF lowVolatility(cyc.snap)
           THEN /\ skippedBets' = skippedBets + 1
                /\ pc' = "postwait" /\ cyc' = IdleCyc
                /\ skipReason' = "volatility"
                /\ UNCHANGED <<upBets, downBets>>
           ELSE IF side = "none"
           THEN /\ skippedBets' = skippedBets + 1
                /\ pc' = "postwait" /\ cyc' = IdleCyc
                /\ skipReason' = "edge"
                /\ UNCHANGED <<upBets, downBets>>
           ELSE /\ upBets' = upBets + (IF side = "up" THEN 1 ELSE 0)
                /\ downBets' = downBets + (IF side = "down" THEN 1 ELSE 0)
                /\ skippedBets' = skippedBets
                /\ skipReason' = "none"
                /\ IF betSize < 100
                   THEN /\ pc' = "postwait" /\ cyc' = IdleCyc
                   ELSE /\ pc' = "liquidity"
                        /\ cyc' = [cyc EXCEPT !.upPrice = upPrice,
                                              !.downPrice = downPrice,
                                              !.priceFailed = tokensSet /\ ~fetched,
                                              !.side = side,
                                              !.betSize = betSize]
    /\ UNCHANGED <<refVars, exited, isRunning, lastTradedWindowId, apiErrorCount,
                   totalPredictions, feedVars, configVars, polyVars,
                   callVars, orderPosts, firedBoundary>>

\* checkLiquidity's loop over the asks from level i on: the value (price x
\* size, in thousandths of a dollar) summed until a level is priced above
\* bestAsk x 1.01 or the sum covers sizeCents.
RECURSIVE liquidityValue(_, _, _, _, _)
liquidityValue(asks, i, bestAskPrice, totalValue, sizeCents) ==
    IF i > Len(asks) THEN totalValue
    ELSE IF asks[i].price * 100 > bestAskPrice * 101 THEN totalValue
    ELSE LET added == totalValue + asks[i].price * asks[i].size
         IN  IF added >= sizeCents * 10 THEN added
             ELSE liquidityValue(asks, i + 1, bestAskPrice, added, sizeCents)

\* A liquidity check that takes any non-empty book as deep enough.
checkLiquidity_AnyAsk(book, sizeCents) == book.ok /\ Len(book.asks) > 0

\* checkLiquidity(tokenId, sizeUsd).sufficient for the book getOrderBook
\* returned (lines 723-762).
checkLiquidity(book, sizeCents) ==
    IF ~book.ok \/ Len(book.asks) = 0 THEN FALSE
    ELSE liquidityValue(book.asks, 1, book.asks[1].price, 0, sizeCents)
             >= sizeCents * 10

\* checkLiquidity returns after d ms (lines 194-198); when sufficient,
\* placeBetUp/placeBetDown is called and runs to its first await (lines
\* 812-821): without a token id it returns null, which executeTrade records
\* as an API error (line 210).
LiquidityReturn(d, book) ==
    /\ ~exited /\ pc = "liquidity"
    /\ FeedSettled /\ now + d <= Horizon
    /\ now' = now + d
    /\ skipReason' = IF checkLiquidity(book, cyc.betSize) THEN "none"
                                                          ELSE "liquidity"
    /\ IF ~checkLiquidity(book, cyc.betSize)
       THEN /\ skippedBets' = skippedBets + 1
            /\ pc' = "postwait" /\ cyc' = IdleCyc
            /\ UNCHANGED <<apiErrorCount, totalOrders, callVars>>
       ELSE /\ callWindow' = get15MinWindowId(now')
            /\ callsInWindow' = IF callWindow = get15MinWindowId(now')
                                THEN callsInWindow + 1 ELSE 1
            /\ skippedBets' = skippedBets
            /\ IF ~tokensSet
               THEN /\ apiErrorCount' = recordApiError
                    /\ consecFails' = consecFails + 1
                    /\ pc' = "postwait" /\ cyc' = IdleCyc
                    /\ totalOrders' = totalOrders
               ELSE /\ totalOrders' = totalOrders + 1
                    /\ pc' = "order_prices"
                    /\ cyc' = [cyc EXCEPT !.book = book, !.bookToken = cyc.side]
                    /\ UNCHANGED <<apiErrorCount, consecFails>>
    /\ UNCHANGED <<refVars, exited, isRunning, lastTradedWindowId, totalPredictions,
                   upBets, downBets, feedVars, configVars, successfulOrders,
                   failedOrders, totalVolume, orderPosts, firedBoundary>>

\* getMarketPrices inside placeBet returns after d ms (lines 821-849): in a
\* dry run the simulated order is returned and recorded as a trade (line
\* 206); otherwise the order is signed and POSTed.
OrderPricesReturn(d) ==
    /\ ~exited /\ pc = "order_prices"
    /\ FeedSettled /\ now + d <= Horizon
    /\ now' = now + d
    /\ IF isDryRun
       THEN /\ successfulOrders' = successfulOrders + 1
            /\ totalVolume' = totalVolume + cyc.betSize
            /\ lastTradedWindowId' = recordTrade(now')
            /\ apiErrorCount' = apiErrorsAfterTrade
            /\ consecFails' = 0
            /\ pc' = "postwait" /\ cyc' = IdleCyc
            /\ orderPosts' = orderPosts
       ELSE /\ orderPosts' = orderPosts + 1
            /\ pc' = "order_post" /\ cyc' = cyc
            /\ UNCHANGED <<successfulOrders, totalVolume, lastTradedWindowId,
                           apiErrorCount, consecFails>>
    /\ UNCHANGED <<refVars, exited, isRunning, counterVars, feedVars,
                   configVars, totalOrders, failedOrders, callWindow,
                   callsInWindow, firedBoundary, skipReason>>

OrderOutcomes == {"matched", "live", "rejected", "error"}

\* apiRequest returns after d ms (lines 845-865) and executeTrade records the
\* result (lines 205-217).  "rejected" is a 2xx response whose status is
\* neither matched nor live: placeBet counts it as failed and returns it;
\* "error" is a thrown request or a non-2xx response: placeBet returns null.
OrderPostReturn(d, outcome) ==
    /\ ~exited /\ pc = "order_post"
    /\ FeedSettled /\ now + d <= Horizon
    /\ now' = now + d
    /\ IF outcome \in {"matched", "live"}
       THEN /\ successfulOrders' = successfulOrders + 1
            /\ totalVolume' = totalVolume + cyc.betSize
            /\ failedOrders' = failedOrders
       ELSE /\ failedOrders' = failedOrders + 1
            /\ UNCHANGED <<successfulOrders, totalVolume>>
    /\ IF outcome # "error"
       THEN /\ lastTradedWindowId' = recordTrade(now')
            /\ apiErrorCount' = apiErrorsAfterTrade
            /\ consecFails' = 0
       ELSE /\ apiErrorCount' = recordApiError
            /\ lastTradedWindowId' = lastTradedWindowId
            /\ consecFails' = consecFails + 1
    /\ pc' = "postwait" /\ cyc' = IdleCyc
    /\ UNCHANGED <<refVars, exited, isRunning, counterVars, feedVars, configVars,
                   totalOrders, callWindow, callsInWindow, orderPosts,
                   firedBoundary, skipReason>>

\* Lines 331-333: sleep until 5 s after the next window boundary.
PostWait ==
    /\ ~exited /\ pc = "postwait"
    /\ FeedSettled /\ now + postCycleWait(now) <= Horizon
    /\ now' = now + postCycleWait(now)
    /\ pc' = "sleep10"
    /\ skipReason' = "none"
    /\ UNCHANGED <<refVars, exited, indexVars, feedVars, configVars, polyVars, cyc,
                   callVars, orderPosts, firedBoundary>>

\* Lines 337-348: the 10 s sleep, then the loop ends when the breaker is open.
Sleep10 ==
    /\ ~exited /\ pc = "sleep10"
    /\ FeedSettled /\ now + POLL_MS <= Horizon
    /\ now' = now + POLL_MS
    /\ pc' = IF apiErrorCount >= MAX_API_ERRORS THEN "stopped" ELSE "poll"
    /\ UNCHANGED <<refVars, exited, indexVars, feedVars, configVars, polyVars, cyc,
                   historyVars>>

\* A shutdown() that does not call stopPriceFeed.
Shutdown_KeepsFeed ==
    /\ ~exited
    /\ exited' = TRUE
    /\ isRunning' = FALSE
    /\ UNCHANGED <<refVars, now, pc, lastTradedWindowId, apiErrorCount, counterVars,
                   feedVars, configVars, polyVars, cyc, historyVars>>

\* SIGINT/SIGTERM (lines 361-381): shutdown() clears isRunning and stops the
\* feed (stopPriceFeed closes the socket and clears the poll timer; a
\* reconnect timer that is armed stays armed), then process.exit(0) runs in
\* the same turn of the event loop, before any timer or socket event.
Shutdown ==
    /\ ~exited
    /\ exited' = TRUE
    /\ isRunning' = FALSE
    /\ ws' = "none"
    /\ pollInterval' = FALSE
    /\ UNCHANGED <<refVars, now, pc, lastTradedWindowId, apiErrorCount, counterVars,
                   latestPrice, lastUpdateTime, candles15m, currentCandle,
                   reconnectAt, drops, configVars, polyVars, cyc, historyVars>>

\* No helper is being applied on its own.
NoCalc == [mode |-> "none", probWin |-> 0, marketPrice |-> 0, bankroll |-> 0,
           kellyFraction |-> 0, fraction |-> -1, fractionWith |-> -1,
           stake |-> -1, ticks |-> 0, tickTs |-> -1, applied |-> <<>>,
           seeded |-> FALSE, candleCount |-> 0, nFeatures |-> NoManifest,
           prepared |-> NoFeatures,
           heap |-> <<>>, arrays |-> << <<>> >>, curRef |-> 0, snapArr |-> 0,
           snapValues |-> <<>>, snapTicks |-> 0, edited |-> FALSE,
           session |-> "none", probabilities |-> [kind |-> "none", data |-> <<>>],
           label |-> NoLabel, scored |-> NoScore,
           chainlinkFeed |-> FALSE, polls |-> {}, started |-> 0, cutAt |-> -1,
           requests |-> 0, lateRequests |-> 0,
           clock |-> 0, alive |-> FALSE, sockets |-> <<>>, wsSocket |-> 0,
           reconnects |-> <<>>, crossClosed |-> FALSE]

\* The module state of index.ts, priceFeed.ts and polymarket.ts when the
\* modules have been loaded.
Loaded ==
    /\ exited = FALSE
    /\ pc = "init"
    /\ isRunning = FALSE
    /\ lastTradedWindowId = EmptyWindowId
    /\ apiErrorCount = 0
    /\ totalPredictions = 0 /\ upBets = 0 /\ downBets = 0 /\ skippedBets = 0
    /\ latestPrice = 0 /\ lastUpdateTime = 0
    /\ candles15m = <<>> /\ currentCandle = NoCandle
    /\ ws = "none" /\ reconnectAt = -1 /\ drops = 0 /\ pollInterval = FALSE
    /\ chainlinkFailureCount = 0 /\ lastPollAt = -1 /\ lastReferenceOk = -1
    /\ tokensSet = FALSE
    /\ totalOrders = 0 /\ successfulOrders = 0 /\ failedOrders = 0
    /\ totalVolume = 0
    /\ cyc = IdleCyc
    /\ callWindow = EmptyWindowId /\ callsInWindow = 0
    /\ consecFails = 0
    /\ orderPosts = 0
    /\ firedBoundary = 0
    /\ skipReason = "none"

Init ==
    /\ env \in Environments
    /\ calc = NoCalc
    /\ now = env.start
    /\ Loaded

Next ==
    \/ Initialize
    \/ \E k \in StreamTicks : WsMessage(k)
    \/ WsStall
    \/ WsClose
    \/ \E ok \in BOOLEAN : WsReconnect(ok)
    \/ ReferencePoll
    \/ PollIdle
    \/ StartCycle
    \/ \E ok \in Flags : \E p \in Probs : PredictReturn(ok, p)
    \/ \E d \in Durations : \E fetched \in Flags : \E q \in Quotes :
           PricesReturn(d, fetched, q)
    \/ \E d \in Durations : \E book \in Books :
           LiquidityReturn(d, book)
    \/ \E d \in Durations : OrderPricesReturn(d)
    \/ \E d \in Durations : \E outcome \in OrderOutcomes :
           OrderPostReturn(d, outcome)
    \/ PostWait
    \/ Sleep10
    \/ Shutdown

Spec == Init /\ [][Next]_vars

\* ------------------------------------------- helpers applied on their own
\* The arguments a helper is given: a sizing call, or a run of ticks.
CalcInputs ==
    {[NoCalc EXCEPT !.mode = "size", !.probWin = p, !.marketPrice = m,
                    !.bankroll = b, !.kellyFraction = kf] :
        p \in SizingValues, m \in SizingValues, b \in Bankrolls,
        kf \in KellyFractions}
    \cup {[NoCalc EXCEPT !.mode = "ticks"]}
    \cup {[NoCalc EXCEPT !.mode = "snapshot"]}
    \cup {[NoCalc EXCEPT !.mode = "features", !.candleCount = c, !.nFeatures = n] :
             c \in CandleCounts, n \in ManifestSizes}
    \cup {[NoCalc EXCEPT !.mode = "poll", !.chainlinkFeed = TRUE]}
    \cup {[NoCalc EXCEPT !.mode = "stream"]}
    \cup {[NoCalc EXCEPT !.mode = "score", !.session = ss, !.probabilities = pr,
                          !.label = lb] :
             ss \in Sessions, pr \in ProbabilityOutputs, lb \in LabelOutputs}

PureInit ==
    /\ env = Env(FALSE, TRUE, TRUE, WideTick, TRUE, TRUE, EarlyStart, FALSE, FALSE, TRUE)
    /\ calc \in CalcInputs
    /\ now = env.start
    /\ Loaded

\* kellyBetSize and calculateBetSize are called with the arguments.
SizeBet ==
    /\ calc.mode = "size" /\ calc.stake = -1
    /\ calc' = [calc EXCEPT
                  !.fraction = kellyBetSize(calc.probWin, calc.marketPrice),
                  !.fractionWith = kellyBetSizeWith(calc.probWin, calc.marketPrice,
                                                    calc.kellyFraction,
                                                    MAX_FRACTION_PPM),
                  !.stake = calculateBetSize(calc.bankroll, calc.probWin,
                                             calc.marketPrice)]
    /\ UNCHANGED <<refVars, now, exited, pc, indexVars, feedVars, env, tokensSet,
                   polyVars, cyc, historyVars>>

\* prepareFeatures is called with a list of candles.
PrepareFeatures ==
    /\ calc.mode = "features" /\ ~calc.prepared.called
    /\ calc' = [calc EXCEPT
                  !.prepared = prepareFeatures(
                                   SeedHistoryOf(calc.candleCount, now, WideTick),
                                   calc.nFeatures)]
    /\ UNCHANGED <<refVars, now, exited, pc, indexVars, feedVars, env, tokensSet,
                   polyVars, cyc, historyVars>>

\* runModel is called and session.run hands back the outputs.
RunModel ==
    /\ calc.mode = "score" /\ ~calc.scored.called
    /\ calc' = [calc EXCEPT
                  !.scored = runModel(calc.session, calc.probabilities,
                                      calc.label)]
    /\ UNCHANGED <<refVars, now, exited, pc, indexVars, feedVars, env, tokensSet,
                   polyVars, cyc, historyVars>>

\* The poll timer fires and fetchChainlinkPrice runs to its first await
\* (lines 193-209): nothing without a feed or at 3 failures; otherwise the
\* feed is captured and latestRoundData is requested, raced against a 5 s
\* timer.  That race ends before the timer's firing after the next, so at most
\* the latest call is still in it when the timer fires.
FetchChainlinkStart ==
    /\ calc.mode = "poll" /\ calc.started < MaxPolls
    /\ \A p \in calc.polls : p.stage = "round" => p.idx = calc.started
    /\ IF ~calc.chainlinkFeed \/ chainlinkFailureCount >= MAX_CHAINLINK_FAILURES
       THEN calc' = [calc EXCEPT !.started = calc.started + 1]
       ELSE calc' = [calc EXCEPT
                       !.started = calc.started + 1,
                       !.requests = calc.requests + 1,
                       !.polls = calc.polls
                                 \cup {[idx |-> calc.started + 1,
                                        stage |-> "round"]}]
    /\ UNCHANGED <<refVars, now, exited, pc, indexVars, feedVars, env, tokensSet,
                   polyVars, cyc, historyVars>>

\* latestRoundData answers within the 5 s (lines 206-210): the call requests
\* decimals from the feed it captured, whatever chainlinkFeed is by now.
LatestRoundDataAnswer(p) ==
    /\ calc.mode = "poll" /\ p \in calc.polls /\ p.stage = "round"
    /\ calc' = [calc EXCEPT
                  !.polls = (calc.polls \ {p})
                            \cup {[p EXCEPT !.stage = "decimals"]},
                  !.requests = calc.requests + 1,
                  !.lateRequests = calc.lateRequests
                                   + (IF calc.chainlinkFeed THEN 0 ELSE 1)]
    /\ UNCHANGED <<refVars, now, exited, pc, indexVars, feedVars, env, tokensSet,
                   polyVars, cyc, historyVars>>

\* decimals answers (lines 210-216): the failure count is reset.
DecimalsAnswer(p) ==
    /\ calc.mode = "poll" /\ p \in calc.polls /\ p.stage = "decimals"
    /\ chainlinkFailureCount' = 0
    /\ calc' = [calc EXCEPT !.polls = calc.polls \ {p}]
    /\ UNCHANGED <<lastPollAt, lastReferenceOk, now, exited, pc, indexVars,
                   feedVars, env, tokensSet, polyVars, cyc, historyVars>>

\* A catch of fetchChainlinkPrice that counts the failure and keeps the feed.
ChainlinkCatch_KeepsFeed(p) ==
    /\ calc.mode = "poll" /\ p \in calc.polls
    /\ chainlinkFailureCount' = chainlinkFailureCount + 1
    /\ calc' = [calc EXCEPT !.polls = calc.polls \ {p}]
    /\ UNCHANGED <<lastPollAt, lastReferenceOk, now, exited, pc, indexVars,
                   feedVars, env, tokensSet, polyVars, cyc, historyVars>>

\* The catch of fetchChainlinkPrice (lines 217-234): latestRoundData rejected
\* or lost the race to the 5 s timer, or decimals rejected; the failure is
\* counted and at 3 chainlinkProvider and chainlinkFeed are set to null.
ChainlinkCatch(p) ==
    /\ calc.mode = "poll" /\ p \in calc.polls
    /\ chainlinkFailureCount' = chainlinkFailureCount + 1
    /\ calc' = [calc EXCEPT
                  !.polls = calc.polls \ {p},
                  !.chainlinkFeed =
                      IF chainlinkFailureCount + 1 >= MAX_CHAINLINK_FAILURES
                      THEN FALSE ELSE calc.chainlinkFeed,
                  !.cutAt =
                      IF chainlinkFailureCount + 1 >= MAX_CHAINLINK_FAILURES
                         /\ calc.chainlinkFeed
                      THEN calc.started ELSE calc.cutAt]
    /\ UNCHANGED <<lastPollAt, lastReferenceOk, now, exited, pc, indexVars,
                   feedVars, env, tokensSet, polyVars, cyc, historyVars>>

\* The calls of fetchChainlinkPrice that may be in flight.
PollCalls == {[idx |-> i, stage |-> st] : i \in 1..MaxPolls,
                                          st \in {"round", "decimals"}}

\* ---- connectBinanceWS on its own: sockets, their timers and their events.
\* The clock counts steps of 5 s: the reconnect timer takes 1 step, the
\* connect timeout 2.  sockets[i] is the socket of the i-th call: its
\* readyState, the deadline of its connectTimeout (-1 when cleared or fired),
\* the state of the promise the call returned, whether the call is the one
\* startPriceFeed awaits, and whether its timeout closed it.  wsSocket is the
\* module variable ws (0 for null); reconnects holds the deadlines of the
\* reconnect timers that are armed.
CONNECT_TIMEOUT_STEPS == 2
RECONNECT_STEPS == 1

\* The body of connectBinanceWS (lines 286-299): arm the connect timeout,
\* create the socket and store it in ws.
connectBinanceWS(c, awaited) ==
    [c EXCEPT
       !.sockets = Append(c.sockets,
                          [state |-> "CONNECTING",
                           timer |-> c.clock + CONNECT_TIMEOUT_STEPS,
                           promise |-> "pending", awaited |-> awaited,
                           timedOut |-> FALSE]),
       !.wsSocket = Len(c.sockets) + 1]

\* reject() of the promise of call i: a promise that is pending and that
\* nobody awaits becomes an unhandled rejection, which ends the process.
rejectAttempt(c, i) ==
    IF c.sockets[i].promise # "pending" THEN c
    ELSE [c EXCEPT !.sockets[i].promise = "rejected",
                   !.alive = c.sockets[i].awaited]

\* startPriceFeed (lines 356-365) calls connectBinanceWS and awaits it.
StreamStart ==
    /\ calc.mode = "stream" /\ ~calc.alive /\ calc.sockets = <<>>
    /\ calc' = connectBinanceWS([calc EXCEPT !.alive = TRUE], TRUE)
    /\ UNCHANGED <<refVars, now, exited, pc, indexVars, feedVars, env, tokensSet,
                   polyVars, cyc, historyVars>>

\* An "open" handler that leaves the connect timeout armed.
SocketOpen_KeepsTimer(i) ==
    /\ calc.mode = "stream" /\ calc.alive
    /\ i \in 1..Len(calc.sockets) /\ calc.sockets[i].state = "CONNECTING"
    /\ calc' = [calc EXCEPT !.sockets[i].state = "OPEN",
                             !.sockets[i].promise = "resolved"]
    /\ UNCHANGED <<refVars, now, exited, pc, indexVars, feedVars, env, tokensSet,
                   polyVars, cyc, historyVars>>

\* ws.on("open") of socket i (lines 300-304): clear the timeout, resolve.
SocketOpen(i) ==
    /\ calc.mode = "stream" /\ calc.alive
    /\ i \in 1..Len(calc.sockets) /\ calc.sockets[i].state = "CONNECTING"
    /\ calc' = [calc EXCEPT !.sockets[i].state = "OPEN",
                             !.sockets[i].timer = -1,
                             !.sockets[i].promise = "resolved"]
    /\ UNCHANGED <<refVars, now, exited, pc, indexVars, feedVars, env, tokensSet,
                   polyVars, cyc, historyVars>>

\* Socket i ends: a handshake that fails or was aborted, or an open socket
\* whose connection is lost or closed by the peer.  The socket emits "error"
\* when it had not opened or broke (lines 337-341: clear the timeout, reject)
\* and then "close" (lines 332-335: arm the reconnect timer), in one turn.
SocketEnd(i) ==
    /\ calc.mode = "stream" /\ calc.alive
    /\ i \in 1..Len(calc.sockets)
    /\ calc.sockets[i].state \in {"CONNECTING", "OPEN", "CLOSING"}
    /\ calc' = [rejectAttempt([calc EXCEPT !.sockets[i].state = "CLOSED",
                                           !.sockets[i].timer = -1], i)
                  EXCEPT !.reconnects = Append(calc.reconnects,
                                               calc.clock + RECONNECT_STEPS)]
    /\ UNCHANGED <<refVars, now, exited, pc, indexVars, feedVars, env, tokensSet,
                   polyVars, cyc, historyVars>>

\* The connectTimeout of call i fires (lines 291-296): when ws is set and not
\* open, ws.close() (a socket that is connecting aborts its handshake and
\* emits its events later) and reject.
ConnectTimeout(i) ==
    /\ calc.mode = "stream" /\ calc.alive
    /\ i \in 1..Len(calc.sockets)
    /\ calc.sockets[i].timer >= 0 /\ calc.sockets[i].timer <= calc.clock
    /\ LET j == calc.wsSocket
           fired == [calc EXCEPT !.sockets[i].timer = -1]
       IN  IF j # 0 /\ calc.sockets[j].state # "OPEN"
           THEN calc' = rejectAttempt(
                            [fired EXCEPT
                               !.sockets[j].state =
                                   IF calc.sockets[j].state = "CONNECTING"
                                   THEN "CLOSING" ELSE calc.sockets[j].state,
                               !.sockets[j].timedOut = TRUE,
                               !.crossClosed = calc.crossClosed \/ j # i], i)
           ELSE calc' = fired
    /\ UNCHANGED <<refVars, now, exited, pc, indexVars, feedVars, env, tokensSet,
                   polyVars, cyc, historyVars>>

\* A reconnect timer fires (line 334): connectBinanceWS() is called and the
\* promise it returns is dropped.
ReconnectTimer ==
    /\ calc.mode = "stream" /\ calc.alive
    /\ calc.reconnects # <<>> /\ Head(calc.reconnects) <= calc.clock
    /\ Len(calc.sockets) < MaxSockets
    /\ calc' = connectBinanceWS([calc EXCEPT !.reconnects = Tail(calc.reconnects)],
                                FALSE)
    /\ UNCHANGED <<refVars, now, exited, pc, indexVars, feedVars, env, tokensSet,
                   polyVars, cyc, historyVars>>

\* 5 s pass: no timer is due.
StreamClock ==
    /\ calc.mode = "stream" /\ calc.alive /\ calc.clock < MaxClock
    /\ \A i \in 1..Len(calc.sockets) :
           calc.sockets[i].timer < 0 \/ calc.sockets[i].timer > calc.clock
    /\ \A k \in 1..Len(calc.reconnects) : calc.reconnects[k] > calc.clock
    /\ calc' = [calc EXCEPT !.clock = calc.clock + 1]
    /\ UNCHANGED <<refVars, now, exited, pc, indexVars, feedVars, env, tokensSet,
                   polyVars, cyc, historyVars>>

\* stopPriceFeed (lines 382-392), called by shutdown() right before
\* process.exit: ws.close(), ws = null, and the process ends.
StreamStop ==
    /\ calc.mode = "stream" /\ calc.alive
    /\ calc' = [calc EXCEPT
                  !.alive = FALSE, !.wsSocket = 0,
                  !.sockets = [i \in 1..Len(calc.sockets) |->
                                 IF i = calc.wsSocket
                                    /\ calc.sockets[i].state \in {"CONNECTING", "OPEN"}
                                 THEN [calc.sockets[i] EXCEPT !.state = "CLOSING"]
                                 ELSE calc.sockets[i]]]
    /\ UNCHANGED <<refVars, now, exited, pc, indexVars, feedVars, env, tokensSet,
                   polyVars, cyc, historyVars>>

\* fetchHistorical15mCandles(limit) is called before any tick.
SeedCandles(limit) ==
    /\ calc.mode = "ticks" /\ calc.ticks = 0 /\ ~calc.seeded
    /\ candles15m' = SeedHistoryOf(limit, now, FlatTick)
    /\ latestPrice' = FlatTick.close
    /\ lastUpdateTime' = now
    /\ calc' = [calc EXCEPT !.seeded = TRUE]
    /\ UNCHANGED <<refVars, now, exited, pc, indexVars, currentCandle, ws, reconnectAt,
                   drops, pollInterval, env, tokensSet, polyVars, cyc,
                   historyVars>>

\* aggregateTo15Min is called with a tick of timestamp ts and shape k.
FeedTick(ts, k) ==
    /\ calc.mode = "ticks" /\ calc.ticks < MaxTicks
    /\ candles15m' = aggregateHistory(candles15m, currentCandle, ts)
    /\ currentCandle' = aggregateCurrent(currentCandle, ts, k)
    /\ calc' = [calc EXCEPT !.ticks = calc.ticks + 1, !.tickTs = ts,
                             !.applied = Append(calc.applied,
                                                [timestamp |-> ts, k |-> k])]
    /\ UNCHANGED <<refVars, now, exited, pc, indexVars, latestPrice, lastUpdateTime,
                   ws, reconnectAt, drops, pollInterval, env, tokensSet,
                   polyVars, cyc, historyVars>>

\* fetchHistorical15mCandles(100) with its objects: 100 new candle objects,
\* and candles15m bound to the array that holds them.
SnapSeed ==
    /\ calc.mode = "snapshot" /\ calc.ticks = 0 /\ ~calc.seeded
    /\ calc.snapArr = 0
    /\ candles15m' = SeedHistoryOf(HIST_CAP, now, FlatTick)
    /\ latestPrice' = FlatTick.close
    /\ lastUpdateTime' = now
    /\ calc' = [calc EXCEPT
                  !.seeded = TRUE,
                  !.heap = SeedHistoryOf(HIST_CAP, now, FlatTick),
                  !.arrays = << [i \in 1..HIST_CAP |-> i] >>]
    /\ UNCHANGED <<refVars, now, exited, pc, indexVars, currentCandle, ws, reconnectAt,
                   drops, pollInterval, env, tokensSet, polyVars, cyc,
                   historyVars>>

\* aggregateTo15Min with its objects: a tick of another window pushes the
\* reference of the open candle onto array 1 (shifting the oldest out above
\* 100) and binds currentCandle to a new object; a tick of the same window
\* writes into the object currentCandle refers to.
SnapTick(ts, k) ==
    /\ calc.mode = "snapshot" /\ calc.ticks < MaxTicks
    /\ candles15m' = aggregateHistory(candles15m, currentCandle, ts)
    /\ currentCandle' = aggregateCurrent(currentCandle, ts, k)
    /\ LET windowTs == get15MinWindowStart(ts)
           cur == IF calc.curRef = 0 THEN NoCandle ELSE calc.heap[calc.curRef]
           opens == calc.curRef = 0 \/ cur.timestamp # windowTs
           pushed == Append(calc.arrays[1], calc.curRef)
           history == IF opens /\ calc.curRef # 0 /\ cur.timestamp # 0
                      THEN IF Len(pushed) > HIST_CAP THEN Tail(pushed) ELSE pushed
                      ELSE calc.arrays[1]
       IN  calc' = [calc EXCEPT
                      !.ticks = calc.ticks + 1,
                      !.tickTs = ts,
                      !.applied = Append(calc.applied, [timestamp |-> ts, k |-> k]),
                      !.arrays = [calc.arrays EXCEPT ![1] = history],
                      !.heap = IF opens
                               THEN Append(calc.heap, aggregateCurrent(cur, ts, k))
                               ELSE [calc.heap EXCEPT
                                        ![calc.curRef] = aggregateCurrent(cur, ts, k)],
                      !.curRef = IF opens THEN Len(calc.heap) + 1 ELSE calc.curRef]
    /\ UNCHANGED <<refVars, now, exited, pc, indexVars, latestPrice, lastUpdateTime,
                   ws, reconnectAt, drops, pollInterval, env, tokensSet,
                   polyVars, cyc, historyVars>>

\* get15MinCandles is called and its result kept.
TakeSnapshot ==
    /\ calc.mode = "snapshot" /\ calc.snapArr = 0
    /\ LET copied == Append(calc.arrays, calc.arrays[1])
           a == get15MinCandlesArray(calc.arrays)
       IN  calc' = [calc EXCEPT
                      !.arrays = copied,
                      !.snapArr = a,
                      !.snapValues = Deref(copied[a], calc.heap),
                      !.snapTicks = calc.ticks]
    /\ UNCHANGED <<refVars, now, exited, pc, indexVars, feedVars, env, tokensSet,
                   polyVars, cyc, historyVars>>

\* The holder of the snapshot changes the list it was given: pop(), shift()
\* or reverse().
ConsumerEdit(e) ==
    /\ calc.mode = "snapshot" /\ calc.snapArr # 0 /\ ~calc.edited
    /\ Len(calc.arrays[calc.snapArr]) > 0
    /\ LET list == calc.arrays[calc.snapArr]
           edit == CASE e = "pop" -> SubSeq(list, 1, Len(list) - 1)
                     [] e = "shift" -> Tail(list)
                     [] e = "reverse" -> [i \in 1..Len(list) |-> list[Len(list) + 1 - i]]
       IN  calc' = [calc EXCEPT
                      !.arrays = [calc.arrays EXCEPT ![calc.snapArr] = edit],
                      !.edited = TRUE]
    /\ candles15m' = Deref(calc'.arrays[1], calc'.heap)
    /\ UNCHANGED <<refVars, now, exited, pc, indexVars, latestPrice, lastUpdateTime,
                   currentCandle, ws, reconnectAt, drops, pollInterval, env,
                   tokensSet, polyVars, cyc, historyVars>>

PureNext ==
    \/ SizeBet
    \/ SnapSeed
    \/ \E ts \in SnapTickTimes : \E k \in SnapTickShapes : SnapTick(ts, k)
    \/ TakeSnapshot
    \/ \E e \in ConsumerEdits : ConsumerEdit(e)
    \/ PrepareFeatures
    \/ RunModel
    \/ FetchChainlinkStart
    \/ \E p \in PollCalls : LatestRoundDataAnswer(p)
    \/ \E p \in PollCalls : DecimalsAnswer(p)
    \/ \E p \in PollCalls : ChainlinkCatch(p)
    \/ StreamStart
    \/ \E i \in 1..MaxSockets : SocketOpen(i)
    \/ \E i \in 1..MaxSockets : SocketEnd(i)
    \/ \E i \in 1..MaxSockets : ConnectTimeout(i)
    \/ ReconnectTimer
    \/ StreamClock
    \/ StreamStop
    \/ \E limit \in SeedLimits : SeedCandles(limit)
    \/ \E ts \in TickTimes : \E k \in TickShapes : FeedTick(ts, k)

PureSpec == PureInit /\ [][PureNext]_vars

\* ================================================================ claims

\* C1 (dedup): while one WindowId is current, all the decision cycles together
\* make at most one placeBetUp/placeBetDown call, whatever the first call's
\* outcome.
C1_OneSubmissionPerWindow == callsInWindow <= 1

\* C1 witness: a submission failed (so lastTradedWindowId does not cover its
\* window), the cycle has returned, and that window is still current.
C1_Witness ==
    /\ pc = "postwait" /\ consecFails >= 1
    /\ callsInWindow = 1 /\ callWindow = get15MinWindowId(now)
    /\ lastTradedWindowId # get15MinWindowId(now)

\* C2 (breaker fails closed): apiErrorCount never decreases, and once it has
\* reached MAX_API_ERRORS no placeBet call and no order POST happens again and
\* a decision cycle that still starts is refused by the pre-check.
C2_BreakerFailClosed ==
    [][ /\ apiErrorCount' >= apiErrorCount
        /\ apiErrorCount >= MAX_API_ERRORS =>
              /\ callWindow' = callWindow /\ callsInWindow' = callsInWindow
              /\ orderPosts' = orderPosts
              /\ pc' \notin CyclePcs
      ]_vars

\* C2 witness: the third API error has been recorded and the main loop has
\* ended on it.
C2_Witness == apiErrorCount >= MAX_API_ERRORS /\ pc = "stopped" /\ ~exited

\* C3 (pre-check veto): a decision cycle that starts with the breaker open,
\* the current window already traded or the feed unhealthy takes no snapshot,
\* runs no inference, calls no broker function, submits nothing, and adds
\* exactly one to skippedBets.
C3_PreCheckVeto ==
    [][ ( /\ totalPredictions' = totalPredictions + 1
          /\ \/ apiErrorCount >= MAX_API_ERRORS
             \/ get15MinWindowId(now) = lastTradedWindowId
             \/ ~(now - lastUpdateTime < STALE_MS /\ latestPrice > 0) )
        => ( /\ skippedBets' = skippedBets + 1
             /\ pc' = "postwait" /\ cyc' = IdleCyc
             /\ UNCHANGED <<lastTradedWindowId, apiErrorCount, upBets, downBets,
                            polyVars, callVars, orderPosts>> )
      ]_vars

\* C3 witness: a cycle was started at this instant, inside the firing band,
\* with a feed that is stale, and has returned.
C3_Witness ==
    /\ pc = "postwait" /\ isOptimalBettingTime(now)
    /\ firedBoundary = getNext15MinWindowStart(now)
    /\ now - lastUpdateTime >= STALE_MS
    /\ skippedBets >= 1 /\ Len(candles15m) >= MIN_CANDLES

\* C4 (development mode): when NODE_ENV is not production no order is POSTed
\* to the order endpoint; placeBet returns its simulated order instead.
C4_DevNeverPosts == ~IS_PRODUCTION => orderPosts = 0

\* C4 witness: outside production a placeBet call has returned a simulated
\* order, which was recorded as a trade.
C4_Witness ==
    /\ ~IS_PRODUCTION /\ successfulOrders >= 1
    /\ lastTradedWindowId # EmptyWindowId

\* C5 (scheduler): a poll inside the firing band starts a decision cycle; no
\* boundary gets a second cycle; and after a cycle the loop sleeps until after
\* the boundary the cycle was started for.
C5_OncePerBand ==
    [][ /\ (pc = "poll" /\ pc' # "poll" /\ isOptimalBettingTime(now))
              => totalPredictions' = totalPredictions + 1
        /\ totalPredictions' = totalPredictions + 1
              => getNext15MinWindowStart(now) > firedBoundary
        /\ (pc = "postwait" /\ pc' = "sleep10")
              => now' >= firedBoundary + POST_WINDOW_MS
      ]_vars

\* C5 witness: a second cycle has run and the loop has woken 5 s after the
\* boundary that cycle was started for.
C5_Witness ==
    /\ totalPredictions >= 2 /\ pc = "sleep10"
    /\ now = firedBoundary + POST_WINDOW_MS

\* C6 (no window missed): once a first cycle has run and while the loop is
\* running, the 15-minute boundary most recently passed is one a decision
\* cycle was started for, also after a cycle whose calls ran past a boundary.
C6_NoWindowMissed ==
    (~exited /\ pc \notin {"init", "exit", "stopped"} /\ totalPredictions >= 1)
        => get15MinWindowStart(now) <= firedBoundary

\* C7 (a refused order is a failure): when the order request returns without
\* the broker having accepted the order, apiErrorCount grows by one and
\* lastTradedWindowId keeps its value; an accepted order records the window.
C7_NotAcceptedIsFailure ==
    [][ (pc = "order_post" /\ pc' = "postwait")
        => IF successfulOrders' = successfulOrders + 1
           THEN lastTradedWindowId' = get15MinWindowId(now')
           ELSE /\ apiErrorCount' = apiErrorCount + 1
                /\ lastTradedWindowId' = lastTradedWindowId
      ]_vars

\* C8 (failed price request is an error): a cycle whose implied-price request
\* failed does not go on to call placeBet, let alone POST an order.
C8_NoOrderOnDefaultPrices ==
    ~(cyc.priceFailed /\ pc \in {"order_prices", "order_post"})

C10_NoExitDuringOrder == ~(exited /\ pc = "order_post")

\* C11 (shutdown releases the connections): once stopPriceFeed has run the
\* stream socket is closed and the reference poll timer is cleared, and from
\* then on no connection attempt is made: the socket state and the reconnect
\* timer never change again.
C11_ShutdownReleasesFeed ==
    [][ /\ exited' => (ws' = "none" /\ ~pollInterval')
        /\ exited => UNCHANGED <<ws, reconnectAt, pollInterval>>
      ]_vars

\* C11 witness: the process was stopped by a signal while the socket was down
\* and its reconnect timer armed, the poll timer having been set.
C11_Witness ==
    /\ exited /\ pc # "exit" /\ ws = "none" /\ ~pollInterval
    /\ reconnectAt > now /\ env.rpcOk

\* The steps the program takes by itself: its timers expire and its local
\* computations (model loading, inference) finish.  The answers of the broker
\* are not among them: no code of the cycle puts a limit on an awaited fetch.
SchedulerStep ==
    \/ Initialize
    \/ ReferencePoll
    \/ PollIdle
    \/ StartCycle
    \/ \E ok \in Flags : \E p \in Probs : PredictReturn(ok, p)
    \/ PostWait
    \/ Sleep10

LiveSpec == Spec /\ WF_vars(SchedulerStep)

\* C12 (every cycle terminates): a decision cycle that is awaiting a broker
\* call (implied prices, order book, order submission) eventually stops
\* awaiting it, whether or not the broker answers, unless the process exits.
C12_CycleTerminates ==
    \A stage \in {"prices", "liquidity", "order_prices", "order_post"} :
        (pc = stage /\ ~exited) ~> (pc # stage \/ exited)

\* C13 (volatility gate): when the last candle of the cycle's snapshot has
\* (high - low) / close below 0.001, the cycle ends when the implied prices
\* have come back: it calls no placeBet, POSTs nothing, counts no bet, and
\* adds exactly one to skippedBets, whatever probability the model returned.
C13_VolatilityGate ==
    [][ ( /\ pc = "prices" /\ pc' # "prices"
          /\ LET lastCandle == cyc.snap[Len(cyc.snap)]
             IN  (lastCandle.high - lastCandle.low) * MIN_RANGE_DIV
                     < lastCandle.close )
        => ( /\ pc' = "postwait" /\ skippedBets' = skippedBets + 1
             /\ UNCHANGED <<upBets, downBets, lastTradedWindowId, apiErrorCount,
                            polyVars, callVars, orderPosts>> )
      ]_vars

\* C13 witness: the first cycle of a run seeded with flat candles was
\* skipped by the volatility gate, no bet counted and nothing submitted.
C13_Witness ==
    /\ pc = "postwait" /\ skipReason = "volatility"
    /\ env.k = FlatTick /\ skippedBets = 1 /\ totalPredictions = 1
    /\ upBets = 0 /\ downBets = 0 /\ orderPosts = 0

\* C14 (confidence and edge gate): a cycle goes on towards an Up order only
\* with probUp > MIN_CONFIDENCE_UP and probUp - upPrice > 0.02, towards a Down
\* order only with probUp < MIN_CONFIDENCE_DOWN and (1 - probUp) - downPrice >
\* 0.02; a probability between the two thresholds always ends the cycle, and a
\* cycle that ends at this gate without a bet submits nothing and adds exactly
\* one to skippedBets.
C14_ConfidenceEdgeGate ==
    [][ /\ pc' \in {"liquidity", "order_prices", "order_post"} =>
              /\ cyc'.side \in {"up", "down"}
              /\ cyc'.side = "up" =>
                    /\ cyc'.probUp > MIN_CONFIDENCE_UP
                    /\ cyc'.probUp - cyc'.upPrice > MIN_EDGE
              /\ cyc'.side = "down" =>
                    /\ cyc'.probUp < MIN_CONFIDENCE_DOWN
                    /\ (1000 - cyc'.probUp) - cyc'.downPrice > MIN_EDGE
        /\ ( /\ pc = "prices" /\ pc' # "prices"
             /\ cyc.probUp <= MIN_CONFIDENCE_UP
             /\ cyc.probUp >= MIN_CONFIDENCE_DOWN ) => pc' = "postwait"
        /\ (pc = "prices" /\ pc' = "postwait"
               /\ upBets' = upBets /\ downBets' = downBets) =>
              /\ skippedBets' = skippedBets + 1
              /\ UNCHANGED <<lastTradedWindowId, apiErrorCount, polyVars,
                             callVars, orderPosts>>
      ]_vars

\* C14 witness: in a run that has submitted an order, a cycle whose last
\* candle passed the volatility gate was skipped for confidence or edge.
C14_Witness ==
    /\ pc = "postwait" /\ skipReason = "edge"
    /\ totalOrders >= 1 /\ skippedBets >= 1

\* The value, in thousandths of a dollar, of all the ask levels from i on that
\* are priced at most bestAskPrice x 1.01.
RECURSIVE C15_QualifyingValue(_, _, _)
C15_QualifyingValue(asks, i, bestAskPrice) ==
    IF i > Len(asks) THEN 0
    ELSE (IF asks[i].price * 100 <= bestAskPrice * 101
          THEN asks[i].price * asks[i].size ELSE 0)
         + C15_QualifyingValue(asks, i + 1, bestAskPrice)

C16_KellyZero ==
    ( /\ calc.mode = "size" /\ calc.stake # -1
      /\ \/ calc.probWin <= 0 \/ calc.probWin >= 1000
         \/ calc.marketPrice <= 0 \/ calc.marketPrice >= 1000
         \/ calc.probWin <= calc.marketPrice )
    => (calc.fraction = 0 /\ calc.fractionWith = 0)

\* C16 witness: kellyBetSize was applied to a probability equal to the market
\* price, both inside (0, 1).
C16_Witness ==
    /\ calc.mode = "size" /\ calc.stake # -1
    /\ calc.probWin = calc.marketPrice
    /\ calc.probWin > 0 /\ calc.probWin < 1000
    /\ calc.fraction = 0

C18_KellyMonotone ==
    ( /\ calc.mode = "size" /\ calc.stake # -1
      /\ calc.marketPrice > 0 /\ calc.marketPrice < calc.probWin )
    => \A p2 \in SizingValues :
          (calc.probWin <= p2 /\ p2 < 1000)
          => /\ calc.fraction <= kellyBetSize(p2, calc.marketPrice)
             /\ calc.fractionWith
                    <= kellyBetSizeWith(p2, calc.marketPrice, calc.kellyFraction,
                                        MAX_FRACTION_PPM)

\* C18 witness: kellyBetSize returned a fraction strictly between 0 and the
\* ceiling for a probability that has larger probabilities above it.
C18_Witness ==
    /\ calc.mode = "size" /\ calc.stake # -1
    /\ calc.fraction > 0 /\ calc.fraction < MAX_FRACTION_PPM
    /\ calc.probWin + GridStep < 1000
    /\ kellyBetSize(calc.probWin + GridStep, calc.marketPrice) > calc.fraction

C20_WindowAligned ==
    calc.mode = "ticks"
    => /\ currentCandle # NoCandle => currentCandle.timestamp % WINDOW_MS = 0
       /\ \A i \in 1..Len(candles15m) : candles15m[i].timestamp % WINDOW_MS = 0
       /\ calc.ticks > 0 =>
             /\ currentCandle.timestamp <= calc.tickTs
             /\ calc.tickTs < currentCandle.timestamp + WINDOW_MS

\* C20 witness: after three ticks, the last one off the minute grid, two
\* candles have been sealed into the history.
C20_Witness ==
    /\ calc.mode = "ticks" /\ calc.ticks >= 3
    /\ Len(candles15m) >= 2
    /\ calc.tickTs % 60000 # 0

\* The index in calc.applied of the first tick of the run of ticks that ends
\* the sequence and lies in one window: the ticks the open candle was built
\* from.
RECURSIVE C21_RunStart(_)
C21_RunStart(i) ==
    IF i > 1 /\ get15MinWindowStart(calc.applied[i - 1].timestamp)
                   = get15MinWindowStart(calc.applied[i].timestamp)
    THEN C21_RunStart(i - 1)
    ELSE i

RECURSIVE C21_VolumeSum(_, _)
C21_VolumeSum(i, j) ==
    IF i > j THEN 0 ELSE calc.applied[i].k.volume + C21_VolumeSum(i + 1, j)

\* C21 (aggregation within one window): the open candle's high is the largest
\* high and its low the smallest low of the ticks of its window, in whatever
\* order they were applied; its close is the close of the tick applied last,
\* its volume the sum of their volumes, its open the open of the tick applied
\* first.
C21_WindowAggregate ==
    (calc.mode = "ticks" /\ calc.ticks > 0)
    => LET n == Len(calc.applied)
           first == C21_RunStart(n)
           run == first..n
       IN  /\ \A i \in run : currentCandle.high >= calc.applied[i].k.high
           /\ \E i \in run : currentCandle.high = calc.applied[i].k.high
           /\ \A i \in run : currentCandle.low <= calc.applied[i].k.low
           /\ \E i \in run : currentCandle.low = calc.applied[i].k.low
           /\ currentCandle.close = calc.applied[n].k.close
           /\ currentCandle.volume = C21_VolumeSum(first, n)
           /\ currentCandle.open = calc.applied[first].k.open

\* C21 witness: three ticks of one window, the one with the largest high in
\* the middle and a later timestamp before an earlier one.
C21_Witness ==
    /\ calc.mode = "ticks" /\ Len(calc.applied) = 3
    /\ C21_RunStart(3) = 1
    /\ calc.applied[2].k.high > calc.applied[1].k.high
    /\ calc.applied[2].k.high > calc.applied[3].k.high
    /\ calc.applied[2].timestamp > calc.applied[3].timestamp
    /\ calc.applied[1].k.open # calc.applied[3].k.open
    /\ currentCandle.volume > 3

\* C22 (history strictly ascending): after any startup seeding and ticks the
\* windowStart values of the history are strictly increasing, so that no
\* window appears twice.
C22_HistoryAscending ==
    \A i \in 1..(Len(candles15m) - 1) :
        candles15m[i].timestamp < candles15m[i + 1].timestamp

\* C23 (bounded history, oldest evicted first): the history never holds more
\* than 100 candles, and a tick that seals a candle into a full history
\* removes exactly the oldest candle, the others keeping their order in front
\* of the sealed one.
C23_BoundedFifo ==
    [][ /\ Len(candles15m') <= HIST_CAP
        /\ (calc'.ticks # calc.ticks /\ currentCandle # NoCandle
            /\ currentCandle'.timestamp # currentCandle.timestamp
            /\ Len(candles15m) = HIST_CAP)
           => candles15m' = Append(Tail(candles15m), currentCandle)
      ]_vars

\* C23 witness: a candle has been sealed into a history of 100 candles, and
\* the oldest of them is gone.
C23_Witness ==
    /\ calc.mode = "ticks" /\ calc.seeded /\ calc.ticks >= 2
    /\ Len(candles15m) = HIST_CAP
    /\ candles15m[1].timestamp = get15MinWindowStart(now) - (HIST_CAP - 2) * WINDOW_MS
    /\ candles15m[HIST_CAP].timestamp = get15MinWindowStart(calc.applied[1].timestamp)

\* C24 (feature vector shape): prepareFeatures fails for fewer than 20
\* candles; for 20 or more it returns a vector as long as the manifest's
\* n_features, whatever that number: the generated features in their order,
\* cut after n_features of them or followed by zeros; a number that differs
\* from the 32 generated features is warned about and the vector is still
\* returned.
C24_FeatureShape ==
    (calc.mode = "features" /\ calc.prepared.called)
    => LET r == calc.prepared
           n == calc.nFeatures
       IN  /\ calc.candleCount < 20 => ~r.ok
           /\ calc.candleCount >= 20 =>
                 /\ r.ok
                 /\ n # NoManifest => Len(r.features) = n
                 /\ n = NoManifest => Len(r.features) = 32
                 /\ \A i \in 1..Len(r.features) :
                       r.features[i] = IF i <= 32 THEN i ELSE 0
                 /\ r.warned <=> (n # NoManifest /\ n # 32)

\* C24 witness: exactly 20 candles and a manifest asking for more features
\* than are generated gave a zero-padded vector and a warning.
C24_Witness ==
    /\ calc.mode = "features" /\ calc.prepared.called
    /\ calc.candleCount = 20 /\ calc.nFeatures > 32
    /\ calc.prepared.ok /\ calc.prepared.warned
    /\ Len(calc.prepared.features) = calc.nFeatures
    /\ calc.prepared.features[calc.nFeatures] = 0

\* C25 (failed inference skips the cycle and nothing else): when predict
\* throws, the cycle returns without asking the broker for prices, a book or
\* an order; skippedBets grows by one; apiErrorCount, lastTradedWindowId and
\* the order statistics stay as they were; and the loop, still running, goes
\* to its sleep until 5 s after the window boundary.
C25_FailedInferenceSkips ==
    [][ /\ (pc = "predict" /\ pc' \notin {"predict", "prices"})
           => /\ pc' = "postwait" /\ cyc' = IdleCyc
              /\ skippedBets' = skippedBets + 1
              /\ apiErrorCount' = apiErrorCount
              /\ lastTradedWindowId' = lastTradedWindowId
              /\ isRunning' = isRunning
              /\ UNCHANGED <<upBets, downBets, polyVars, callVars, orderPosts>>
        /\ (pc = "postwait" /\ skipReason = "predict" /\ pc' # pc)
           => /\ pc' = "sleep10" /\ isRunning'
              /\ now' = getNext15MinWindowStart(now) + POST_WINDOW_MS
              /\ apiErrorCount' = apiErrorCount
      ]_vars

\* C25 witness: predict threw in a cycle and the loop is about to sleep.
C25_Witness ==
    /\ pc = "postwait" /\ skipReason = "predict" /\ ~exited
    /\ skippedBets >= 1 /\ cyc = IdleCyc

\* C26 as stated (health follows the stream): once the program has been
\* initialised the feed is healthy if and only if a stream tick was received
\* less than 60 s ago and the last known price is greater than 0.  A stream
\* tick has been received exactly when aggregateTo15Min has opened a candle.
C26_HealthyIffStreamTick ==
    (pc # "init" /\ ~exited)
    => ( isPriceFeedHealthy(now)
         <=> ( /\ currentCandle # NoCandle
               /\ now - lastUpdateTime < STALE_MS
               /\ latestPrice > 0 ) )

\* C26 amended (health follows the latest price update): lastUpdateTime is
\* the instant of the latest price update, a stream tick or the startup seed;
\* a cycle that starts when that update is 60 s old or older, or when the last
\* known price is not greater than 0, is refused by the pre-check, so that
\* every cycle is refused while the stream has been silent that long; a cycle
\* that starts less than 60 s after an update with a positive price, the
\* breaker closed and the window not traded, is not refused, so that health
\* is back with the next tick.
C26_HealthyIffFreshUpdate ==
    [][ /\ lastUpdateTime' # lastUpdateTime
           => /\ lastUpdateTime' = now'
              /\ \/ pc = "init" /\ candles15m' # candles15m
                 \/ ws' = "open" /\ currentCandle' # NoCandle
        /\ totalPredictions' # totalPredictions
           => LET fresh == now - lastUpdateTime < STALE_MS /\ latestPrice > 0
              IN  /\ ~fresh => pc' = "postwait" /\ skipReason' = "precheck"
                  /\ ( /\ fresh
                       /\ apiErrorCount < MAX_API_ERRORS
                       /\ get15MinWindowId(now) # lastTradedWindowId )
                     => skipReason' # "precheck"
      ]_vars

\* C26 witness: the stream has been silent for 60 s or more, the
\* price is known, the breaker is closed and the window not traded, and the
\* cycle that started was refused.
C26_Witness ==
    /\ pc = "postwait" /\ skipReason = "precheck"
    /\ ws = "silent" /\ now - lastUpdateTime >= STALE_MS
    /\ latestPrice > 0 /\ currentCandle # NoCandle
    /\ apiErrorCount < MAX_API_ERRORS
    /\ get15MinWindowId(now) # lastTradedWindowId

\* C27 (single control thread): a decision cycle starts only when none is
\* executing: the loop is at its poll, the previous cycle has returned and
\* left no locals behind; and a cycle for another window boundary starts only
\* there too.
C27_OneCycleAtATime ==
    [][ /\ totalPredictions' # totalPredictions
           => /\ pc = "poll" /\ pc \notin CyclePcs /\ cyc = IdleCyc
              /\ totalPredictions' = totalPredictions + 1
        /\ firedBoundary' # firedBoundary => pc = "poll"
        /\ (pc \in CyclePcs /\ pc' \in CyclePcs)
           => (firedBoundary' = firedBoundary /\ cyc'.snap = cyc.snap)
      ]_vars

\* C27 witness: a second cycle is executing, for a later window than the
\* first, which has returned.
C27_Witness ==
    /\ pc \in CyclePcs /\ totalPredictions >= 2
    /\ firedBoundary > FirstBoundary

\* C28 (sealing): a tick of another window than the open candle's appends the
\* open candle, with the values it had before the tick, once at the end of
\* the history (the oldest candle leaving a full history) and opens a candle
\* that starts at the tick's window with the tick's open, high, low, close
\* and volume; a tick of the open candle's window, or the first tick, leaves
\* the history as it is; so no tick changes a candle that is in the history.
C28_Sealing ==
    [][ calc'.ticks # calc.ticks
        => LET tick == calc'.applied[Len(calc'.applied)]
               windowTs == tick.timestamp - (tick.timestamp % WINDOW_MS)
           IN  IF currentCandle # NoCandle /\ currentCandle.timestamp # windowTs
               THEN /\ candles15m' =
                          IF Len(candles15m) < HIST_CAP
                          THEN candles15m \o <<currentCandle>>
                          ELSE Tail(candles15m) \o <<currentCandle>>
                    /\ currentCandle' =
                          [timestamp |-> windowTs, open |-> tick.k.open,
                           high |-> tick.k.high, low |-> tick.k.low,
                           close |-> tick.k.close, volume |-> tick.k.volume]
               ELSE /\ candles15m' = candles15m
                    /\ currentCandle'.timestamp = windowTs
      ]_vars

\* C28 witness: a candle built from two ticks was sealed by a third tick of
\* another window, which opened the candle that is open now.
C28_Witness ==
    /\ calc.mode = "ticks" /\ ~calc.seeded /\ calc.ticks = 3
    /\ Len(candles15m) = 1
    /\ candles15m[1].volume
          = calc.applied[1].k.volume + calc.applied[2].k.volume
    /\ candles15m[1].close = calc.applied[2].k.close
    /\ candles15m[1].timestamp # currentCandle.timestamp
    /\ currentCandle.open = calc.applied[3].k.open
    /\ currentCandle.open # candles15m[1].close

C30_ReferenceHeartbeat ==
    ( /\ ~exited /\ pollInterval /\ ws \in {"down", "silent"}
      /\ lastReferenceOk >= 0 /\ now - lastReferenceOk < STALE_MS )
    => (now - lastUpdateTime < STALE_MS /\ latestPrice > 0)

\* C32 (reconnect with backoff): whenever the stream socket closes, or a
\* connection attempt fails or times out, while the feed is running, the 5 s
\* reconnect timer is armed for a new attempt and the process keeps running.
C32_ReconnectAfterBackoff ==
    [][ /\ (~exited /\ ws # "down" /\ ws' = "down")
           => (~exited' /\ reconnectAt' = now + RECONNECT_MS)
        /\ (~exited /\ ws = "down" /\ reconnectAt' # reconnectAt /\ ws' # "open")
           => (~exited' /\ ws' = "down" /\ reconnectAt' = now + RECONNECT_MS)
      ]_vars

\* C33 (bounded retries): reconnection is a retry policy with a limit: an
\* attempt that fails is either retried after the backoff or, the limit
\* reached, given up, the reconnect timer left unarmed; in both cases the
\* process and its poll timer go on, so that the attempts end by the limit.
C33_BoundedRetries ==
    [][ (~exited /\ ws = "down" /\ now >= reconnectAt /\ ws' # "open"
            /\ <<ws, reconnectAt>>' # <<ws, reconnectAt>> /\ isRunning')
        => /\ ~exited' /\ pollInterval' = pollInterval
           /\ \/ ws' = "down" /\ reconnectAt' = now + RECONNECT_MS
              \/ ws' = "down" /\ reconnectAt' = -1
      ]_vars

\* C34 (seed failure is not fatal): when the historical candle request times
\* out, fails or answers non-2xx, fetchHistorical15mCandles returns an empty
\* list and leaves the candle history, the last price and the last-update
\* time as they were, and initialize goes on: the price feed is started (the
\* stream attempted, the poll timer set when the reference feed exists) and
\* the scheduler loop entered.
C34_SeedFailureContinues ==
    [][ (pc = "init" /\ pc' # "init" /\ env.modelOk /\ ~env.seedOk)
        => /\ fetchHistorical15mCandles(FALSE, HIST_LIMIT, now, env.k,
                                        SeedState).returned = <<>>
           /\ UNCHANGED <<candles15m, latestPrice, lastUpdateTime>>
           /\ ~exited' /\ pc' = "poll" /\ isRunning'
           /\ ws' \in {"open", "down"} /\ pollInterval' = env.rpcOk
      ]_vars

\* C34 witness: the seed request failed, the history is empty and no price is
\* known, and the loop is polling with the stream open and the poll timer set.
C34_Witness ==
    /\ ~env.seedOk /\ env.modelOk /\ ~exited /\ isRunning
    /\ pc = "sleep10" /\ candles15m = <<>> /\ ws = "open" /\ pollInterval
    /\ currentCandle # NoCandle

\* C35 (inference output): with a loaded session whose run answers, runModel
\* does not throw and returns the second element of the probability pair when
\* the scorer provides one; when it provides no probability output it can
\* read and a hard label, 0.55 for the label 1 and 0.45 for any other label;
\* and 0.5 in every other case.
C35_RunModelOutput ==
    (calc.mode = "score" /\ calc.scored.called /\ calc.session = "ok")
    => LET pr == calc.probabilities
           pair == pr.kind = "float32" /\ Len(pr.data) >= 2
           labelOnly == pr.kind # "float32" /\ calc.label # NoLabel
       IN  /\ ~calc.scored.threw
           /\ pair => calc.scored.probUp = pr.data[2]
           /\ (labelOnly /\ calc.label = 1) => calc.scored.probUp = PROB_LABEL_UP
           /\ (labelOnly /\ calc.label # 1) => calc.scored.probUp = PROB_LABEL_DOWN
           /\ (~pair /\ ~labelOnly) => calc.scored.probUp = PROB_NEUTRAL

\* C35 witness: the scorer answered with the pair (0.3, 0.7) and the label 0,
\* and runModel returned 0.7.
C35_Witness ==
    /\ calc.mode = "score" /\ calc.scored.called /\ calc.session = "ok"
    /\ calc.probabilities = [kind |-> "float32", data |-> <<300, 700>>]
    /\ calc.label = 0 /\ calc.scored.probUp = 700

\* C36 (counter conservation): whenever no decision cycle is executing, every
\* cycle that was started has been counted once: totalPredictions equals
\* upBets + downBets + skippedBets.
C36_CounterConservation ==
    (pc \notin CyclePcs /\ cyc = IdleCyc)
    => totalPredictions = upBets + downBets + skippedBets

C38_FallbackNeverTrades ==
    [][ (pc = "prices" /\ pc' # "prices" /\ ~exited'
            /\ cyc.probUp \in {PROB_LABEL_UP, PROB_LABEL_DOWN, PROB_NEUTRAL})
        => /\ pc' = "postwait" /\ skipReason' \in {"edge", "volatility"}
           /\ skippedBets' = skippedBets + 1
           /\ UNCHANGED <<upBets, downBets, apiErrorCount, lastTradedWindowId,
                          callWindow, callsInWindow, totalOrders, orderPosts>>
      ]_vars

\* C38 witness: the scorer answers without a probability pair; two cycles
\* have run on its fallback values against the broker's quotes, both were
\* skipped for confidence or edge, and no order was ever submitted.
C38_Witness ==
    /\ env.scorer = "label" /\ pc = "postwait" /\ skipReason = "edge"
    /\ totalPredictions = 2 /\ skippedBets = 2
    /\ upBets = 0 /\ downBets = 0 /\ totalOrders = 0 /\ callsInWindow = 0

\* C39 (the traded window is the checked window): the WindowId recordTrade
\* writes to lastTradedWindowId is the WindowId the pre-check of the same
\* cycle compared against, that of the window the cycle was started in, the
\* one ending at the boundary the cycle was fired for; also when the order's
\* answer comes after that boundary.
C39_RecordsCheckedWindow ==
    [][ lastTradedWindowId' # lastTradedWindowId
        => lastTradedWindowId' = get15MinWindowId(firedBoundary - WINDOW_MS)
      ]_vars

\* C31 as stated (nothing is sent after the cut-off): once chainlinkFeed has
\* been set to null no request is sent to the reference source, also by a
\* call of fetchChainlinkPrice that was in flight at the cut-off.
C31_NoRequestAfterCutOff ==
    calc.mode = "poll" => calc.lateRequests = 0

\* C31 amended (no call starts after the cut-off): the failure that brings
\* chainlinkFailureCount to 3 sets chainlinkFeed to null, for good; a call of
\* fetchChainlinkPrice that starts after that sends nothing; the only
\* requests sent after the cut-off are the decimals requests of calls that
\* were awaiting latestRoundData at the cut-off, whose success resets the
\* count to 0 as every success does, without enabling the source again.
C31_NoCallAfterCutOff ==
    [][ calc.mode = "poll"
        => /\ (chainlinkFailureCount' > chainlinkFailureCount
                  /\ chainlinkFailureCount' >= MAX_CHAINLINK_FAILURES)
              => ~calc'.chainlinkFeed
           /\ (calc.chainlinkFeed /\ ~calc'.chainlinkFeed)
              => chainlinkFailureCount' = MAX_CHAINLINK_FAILURES
           /\ ~calc.chainlinkFeed => ~calc'.chainlinkFeed
           /\ (~calc.chainlinkFeed /\ calc'.requests # calc.requests)
              => /\ calc'.started = calc.started
                 /\ \E p \in calc.polls :
                        /\ p.stage = "round" /\ p.idx <= calc.cutAt
                        /\ calc'.polls = (calc.polls \ {p})
                                         \cup {[p EXCEPT !.stage = "decimals"]}
           /\ (~calc.chainlinkFeed /\ calc'.started # calc.started)
              => calc'.polls = calc.polls /\ calc'.requests = calc.requests
           /\ (calc'.polls # calc.polls /\ Cardinality(calc'.polls)
                                            < Cardinality(calc.polls)
                  /\ chainlinkFailureCount' <= chainlinkFailureCount)
              => chainlinkFailureCount' = 0
      ]_vars

\* C31 witness: the source was cut off while a call was awaiting
\* latestRoundData; that call then requested decimals and succeeded, which
\* reset the count; the timer has fired since and nothing more was sent.
C31_Witness ==
    /\ calc.mode = "poll" /\ ~calc.chainlinkFeed
    /\ calc.lateRequests = 1 /\ chainlinkFailureCount = 0
    /\ calc.polls = {} /\ calc.started > calc.cutAt /\ calc.cutAt >= 0
    /\ calc.requests = calc.cutAt + 1

\* C40 (single stream connection): at any time at most one socket is open or
\* connecting, and it is the one ws refers to; a connectTimeout that is armed
\* belongs to the socket ws refers to, which is still connecting, so that the
\* timer of an earlier call never closes the socket of a later call; and a
\* reconnect timer is armed only when no socket is open or connecting, one at
\* a time.
C40_SingleSocket ==
    calc.mode = "stream"
    => LET live == {i \in 1..Len(calc.sockets) :
                        calc.sockets[i].state \in {"CONNECTING", "OPEN"}}
       IN  /\ Cardinality(live) <= 1
           /\ ~calc.crossClosed
           /\ calc.alive
              => /\ \A i \in live : calc.wsSocket = i
                 /\ \A i \in 1..Len(calc.sockets) :
                        calc.sockets[i].timer >= 0
                        => (calc.wsSocket = i
                            /\ calc.sockets[i].state = "CONNECTING")
                 /\ Len(calc.reconnects) <= 1
                 /\ calc.reconnects # <<>> => live = {}

\* C40 witness: the first attempt was closed by its connect timeout, the
\* second opened and was closed later, and the third socket is open.
C40_Witness ==
    /\ calc.mode = "stream" /\ calc.alive /\ Len(calc.sockets) = 3
    /\ calc.sockets[1].timedOut /\ calc.sockets[1].state = "CLOSED"
    /\ calc.sockets[2].state = "CLOSED" /\ calc.sockets[2].promise = "resolved"
    /\ calc.sockets[3].state = "OPEN" /\ calc.wsSocket = 3

====
